---- MODULE Spec2Model ----
(***************************************************************************)
(* A model of two Django view modules of the Hue web console:              *)
(*   apps/oozie/src/oozie/views/dashboard.py    (Oozie job dashboard)      *)
(*   apps/filebrowser/src/filebrowser/views.py  (HDFS file browser)        *)
(*                                                                         *)
(* Each component has its own specification over its own variables; the    *)
(* variables of the other components stay at their initial values.         *)
(*   SpecOozie  the dashboard views and the access gate                    *)
(*   Spec       one save_file request at a time, and read_contents         *)
(*   SpecConc   two save_file requests whose filesystem calls interleave   *)
(*   SpecRead   one read_contents call                                     *)
(*   SpecList   one directory listing request (listdir, listdir_paged)     *)
(*   SpecDisplay  one display request                                      *)
(*   SpecOp     one generic_op request (remove, move, chmod, chown)        *)
(*   SpecUpload one upload request                                         *)
(***************************************************************************)
EXTENDS Integers, Sequences, FiniteSets, TLC

VARIABLES
  \* ---- Oozie dashboard --------------------------------------------------
  oozieWorkflows,    \* the Oozie server's workflow jobs:    id -> job or NoJob
  oozieCoordinators, \* the Oozie server's coordinator jobs: id -> job or NoJob
  request,           \* the request being served (view, user, arguments)
  events,            \* what the handler did, in program order
  gates,             \* the calls of check_access_and_get_oozie_job, in order
  response,          \* what the handler returned or raised
  \* ---- File browser: the filesystem and the editor's saves ---------------
  fsFiles,           \* the filesystem: path -> file or NoFile
  savers,            \* the save_file requests that may run (one, or two at once)
  faulty,            \* whether filesystem calls may fail for outside reasons
  pc,                \* saver -> where its save_file request stands
  req,               \* saver -> the request's path, contents and encoding
  local,             \* saver -> the locals of _do_overwrite_save
  calls,             \* saver -> the filesystem calls of its request, in order
  raised,            \* saver -> the exception its request ended with, or NoError
  renamed,           \* the saver whose fs.rename succeeded last (0: none yet)
  readResult,        \* the last read_contents call: arguments, calls, result
  \* ---- File browser: directory listing -----------------------------------
  listResult,        \* the listing request served: arguments and what it gave
  \* ---- File browser: display of a part of a file -------------------------
  displayResult,     \* the display request served: parameters and what it gave
  \* ---- File browser: one-shot filesystem operations ----------------------
  opResult,          \* the generic_op request served: form, calls, response
  \* ---- File browser: upload ------------------------------------------------
  uploadFs,          \* the uploaded temporary file and its destinations
  fsUser,            \* the active user of the filesystem client
  uploadResult       \* the upload request served: inputs, calls, response

oozieVars == <<oozieWorkflows, oozieCoordinators, request, events, gates, response>>
fsVars == <<fsFiles, savers, faulty, pc, req, local, calls, raised, renamed, readResult>>
listVars == <<listResult>>
displayVars == <<displayResult>>
opVars == <<opResult>>
uploadVars == <<uploadFs, fsUser, uploadResult>>
vars == <<oozieVars, fsVars, listVars, displayVars, opVars, uploadVars>>

\* What a request to one component leaves alone: the other components.
notOozie == <<fsVars, listVars, displayVars, opVars, uploadVars>>
notFs == <<oozieVars, listVars, displayVars, opVars, uploadVars>>
notList == <<oozieVars, fsVars, displayVars, opVars, uploadVars>>
notDisplay == <<oozieVars, fsVars, listVars, opVars, uploadVars>>
notOp == <<oozieVars, listVars, displayVars, uploadVars>>
notUpload == <<oozieVars, fsVars, listVars, displayVars, opVars>>

(***************************************************************************)
(* Oozie dashboard: apps/oozie/src/oozie/views/dashboard.py                *)
(***************************************************************************)

\* User names known to the console and to Oozie.
Usernames == {"alice", "bob"}

\* request.user: a user name and Django's is_superuser flag.
Users == [username : Usernames, is_superuser : BOOLEAN]

\* Job ids are token sequences; the last token is the id's last character.
WorkflowId    == <<"0001-", "W">>
CoordinatorId == <<"0002-", "C">>
MissingId     == <<"0003-", "W">>
JobIds == {WorkflowId, CoordinatorId, MissingId}

\* Action ids: <job id>@<action name>.
ActionNames == {"a1"}
ActionId(jid, name) == jid \o <<"@", name>>
ActionIds == {ActionId(j, n) : j \in JobIds, n \in ActionNames}

\* The control verbs of manage_oozie_jobs and the status each leaves.
ControlActions == {"suspend", "resume", "kill"}
StatusAfter(action) ==
  CASE action = "suspend" -> "SUSPENDED"
    [] action = "resume"  -> "RUNNING"
    [] action = "kill"    -> "KILLED"

NoJob == [id |-> <<>>, user |-> "", status |-> "NONE"]
NoArg == <<>>

\* str.endswith('W')
EndsWithW(job_id) == Len(job_id) > 0 /\ job_id[Len(job_id)] = "W"

\* action.id.split('@')[0]
RECURSIVE SplitAtFirst(_)
SplitAtFirst(id) ==
  IF id = <<>> \/ Head(id) = "@" THEN <<>>
  ELSE <<Head(id)>> \o SplitAtFirst(Tail(id))

\* One entry of the handler's record of what it did.
Ev(name, id) == [ev |-> name, id |-> id]

\* get_oozie().get_job / get_oozie().get_coordinator: the job, or NoJob when
\* the server answers with a RestException.
OozieGetJob(job_id) ==
  IF job_id \in DOMAIN oozieWorkflows THEN oozieWorkflows[job_id] ELSE NoJob
OozieGetCoordinator(job_id) ==
  IF job_id \in DOMAIN oozieCoordinators THEN oozieCoordinators[job_id] ELSE NoJob

\* A gate that forgets the superuser: only the owner passes.
GateAllowsOwnerOnly(user, oozie_job) ==
  oozie_job.user = user.username

\* The permission test of the gate (line 209).
GateAllows(user, oozie_job) ==
  user.is_superuser \/ oozie_job.user = user.username

\* A gate that denies without writing the access-warning audit record.
check_access_no_audit(user, job_id) ==
  LET fetch     == IF EndsWithW(job_id) THEN "get_job" ELSE "get_coordinator"
      oozie_job == IF EndsWithW(job_id) THEN OozieGetJob(job_id)
                                        ELSE OozieGetCoordinator(job_id)
  IN  IF oozie_job = NoJob
        THEN [ret |-> "rest_error", job |-> NoJob, id |-> job_id, fetched |-> NoJob,
              events |-> <<Ev(fetch, job_id), Ev("raise_error", job_id)>>]
      ELSE IF GateAllows(user, oozie_job)
        THEN [ret |-> "job", job |-> oozie_job, id |-> job_id, fetched |-> oozie_job,
              events |-> <<Ev(fetch, job_id), Ev("return_job", job_id)>>]
      ELSE [ret |-> "denied", job |-> NoJob, id |-> job_id, fetched |-> oozie_job,
            events |-> <<Ev(fetch, job_id), Ev("raise_denied", job_id)>>]

\* check_access_and_get_oozie_job(request, job_id): the outcome ("job",
\* "rest_error" or "denied"), the job returned, and the steps it took.
check_access_and_get_oozie_job(user, job_id) ==
  LET fetch     == IF EndsWithW(job_id) THEN "get_job" ELSE "get_coordinator"
      oozie_job == IF EndsWithW(job_id) THEN OozieGetJob(job_id)
                                        ELSE OozieGetCoordinator(job_id)
  IN  IF oozie_job = NoJob
        THEN [ret |-> "rest_error", job |-> NoJob, id |-> job_id, fetched |-> NoJob,
              events |-> <<Ev(fetch, job_id), Ev("raise_error", job_id)>>]
      ELSE IF GateAllows(user, oozie_job)
        THEN [ret |-> "job", job |-> oozie_job, id |-> job_id, fetched |-> oozie_job,
              events |-> <<Ev(fetch, job_id), Ev("return_job", job_id)>>]
      ELSE [ret |-> "denied", job |-> NoJob, id |-> job_id, fetched |-> oozie_job,
            events |-> <<Ev(fetch, job_id), Ev("access_warn", job_id),
                         Ev("raise_denied", job_id)>>]

\* The gate call as it is logged in `gates` (without its steps).
GateRecord(g) == [id |-> g.id, ret |-> g.ret, job |-> g.job, fetched |-> g.fetched]

\* What a view answers.
Popup(why)          == [kind |-> "popup",  why |-> why,  status |-> 0, jobs |-> <<>>]
Rendered(tmpl, js)  == [kind |-> "render", why |-> tmpl, status |-> 0, jobs |-> js]
Json(status)        == [kind |-> "json",   why |-> "",   status |-> status, jobs |-> <<>>]
NoResponse          == [kind |-> "none",   why |-> "",   status |-> 0, jobs |-> <<>>]

\* The PopupException a failed gate leaves the view with.
GateFailure(g) == Popup(IF g.ret = "denied" THEN "permission_denied" ELSE "oozie_error")

\* get_oozie().job_control(job_id, action) on the server's side.
JobControl(job_id, action) ==
  /\ oozieWorkflows' =
       IF job_id \in DOMAIN oozieWorkflows /\ EndsWithW(job_id)
         THEN [oozieWorkflows EXCEPT ![job_id].status = StatusAfter(action)]
         ELSE oozieWorkflows
  /\ oozieCoordinators' =
       IF job_id \in DOMAIN oozieCoordinators /\ ~EndsWithW(job_id)
         THEN [oozieCoordinators EXCEPT ![job_id].status = StatusAfter(action)]
         ELSE oozieCoordinators

\* A manage_oozie_jobs that calls job_control before it asks the gate.
manage_oozie_jobs_control_first(user, method, job_id, action, restFails) ==
  LET g == check_access_and_get_oozie_job(user, job_id) IN
  /\ request' = [view |-> "manage_oozie_jobs", user |-> user, method |-> method,
                 job_id |-> job_id, arg |-> <<action>>]
  /\ IF method # "POST"
       THEN /\ events' = <<>>
            /\ gates' = <<>>
            /\ response' = Popup("use_post")
            /\ UNCHANGED <<oozieWorkflows, oozieCoordinators>>
       ELSE /\ events' = <<Ev("job_control", job_id)>> \o g.events
            /\ gates' = <<GateRecord(g)>>
            /\ response' = IF g.ret # "job" THEN GateFailure(g)
                           ELSE IF restFails THEN Json(-1) ELSE Json(0)
            /\ IF restFails THEN UNCHANGED <<oozieWorkflows, oozieCoordinators>>
                            ELSE JobControl(job_id, action)

\* manage_oozie_jobs(request, job_id, action); restFails: job_control raises
\* a RestException.
manage_oozie_jobs(user, method, job_id, action, restFails) ==
  LET g == check_access_and_get_oozie_job(user, job_id) IN
  /\ request' = [view |-> "manage_oozie_jobs", user |-> user, method |-> method,
                 job_id |-> job_id, arg |-> <<action>>]
  /\ IF method # "POST"
       THEN /\ events' = <<>>
            /\ gates' = <<>>
            /\ response' = Popup("use_post")
            /\ UNCHANGED <<oozieWorkflows, oozieCoordinators>>
     ELSE IF g.ret # "job"
       THEN /\ events' = g.events
            /\ gates' = <<GateRecord(g)>>
            /\ response' = GateFailure(g)
            /\ UNCHANGED <<oozieWorkflows, oozieCoordinators>>
     ELSE /\ events' = g.events \o <<Ev("job_control", job_id)>>
          /\ gates' = <<GateRecord(g)>>
          /\ IF restFails
               THEN /\ response' = Json(-1)
                    /\ UNCHANGED <<oozieWorkflows, oozieCoordinators>>
               ELSE /\ response' = Json(0)
                    /\ JobControl(job_id, action)

\* list_oozie_workflow(request, job_id, coordinator_job_id); coordinator_job_id
\* is NoArg when the URL gives none; historyFails: the submission-history
\* cross reference or can_access_job raises.
list_oozie_workflow(user, job_id, coordinator_job_id, historyFails) ==
  LET g1 == check_access_and_get_oozie_job(user, job_id)
      g2 == check_access_and_get_oozie_job(user, coordinator_job_id)
  IN
  /\ request' = [view |-> "list_oozie_workflow", user |-> user, method |-> "GET",
                 job_id |-> job_id, arg |-> coordinator_job_id]
  /\ UNCHANGED <<oozieWorkflows, oozieCoordinators>>
  /\ IF g1.ret # "job"
       THEN /\ events' = g1.events
            /\ gates' = <<GateRecord(g1)>>
            /\ response' = GateFailure(g1)
     ELSE IF coordinator_job_id # NoArg /\ g2.ret # "job"
       THEN /\ events' = g1.events \o g2.events
            /\ gates' = <<GateRecord(g1), GateRecord(g2)>>
            /\ response' = GateFailure(g2)
     ELSE LET evs == IF coordinator_job_id # NoArg THEN g1.events \o g2.events
                                                    ELSE g1.events
              gs  == IF coordinator_job_id # NoArg
                       THEN <<GateRecord(g1), GateRecord(g2)>>
                       ELSE <<GateRecord(g1)>>
              js  == IF coordinator_job_id # NoArg THEN <<g1.job, g2.job>>
                                                    ELSE <<g1.job>>
          IN /\ gates' = gs
             /\ IF historyFails
                  THEN /\ events' = evs \o <<Ev("history", job_id)>>
                       /\ response' = Popup("history_error")
                  ELSE /\ events' = evs \o <<Ev("history", job_id), Ev("render", job_id)>>
                       /\ response' = Rendered("list_oozie_workflow", js)

\* list_oozie_coordinator(request, job_id)
list_oozie_coordinator(user, job_id) ==
  LET g == check_access_and_get_oozie_job(user, job_id) IN
  /\ request' = [view |-> "list_oozie_coordinator", user |-> user, method |-> "GET",
                 job_id |-> job_id, arg |-> NoArg]
  /\ UNCHANGED <<oozieWorkflows, oozieCoordinators>>
  /\ gates' = <<GateRecord(g)>>
  /\ IF g.ret # "job"
       THEN /\ events' = g.events
            /\ response' = GateFailure(g)
       ELSE /\ events' = g.events \o <<Ev("history", job_id), Ev("render", job_id)>>
            /\ response' = Rendered("list_oozie_coordinator", <<g.job>>)

\* list_oozie_workflow_action(request, action); actionKnown: get_action finds
\* the action (otherwise it raises a RestException).
list_oozie_workflow_action(user, action, actionKnown) ==
  LET job_id == SplitAtFirst(action)
      g      == check_access_and_get_oozie_job(user, job_id)
  IN
  /\ request' = [view |-> "list_oozie_workflow_action", user |-> user, method |-> "GET",
                 job_id |-> job_id, arg |-> action]
  /\ UNCHANGED <<oozieWorkflows, oozieCoordinators>>
  /\ IF ~actionKnown
       THEN /\ events' = <<Ev("get_action", job_id), Ev("raise_error", job_id)>>
            /\ gates' = <<>>
            /\ response' = Popup("oozie_error")
     ELSE IF g.ret # "job"
       THEN /\ events' = <<Ev("get_action", job_id)>> \o g.events
            /\ gates' = <<GateRecord(g)>>
            /\ response' = GateFailure(g)
     ELSE /\ events' = <<Ev("get_action", job_id)>> \o g.events \o <<Ev("render", job_id)>>
          /\ gates' = <<GateRecord(g)>>
          /\ response' = Rendered("list_oozie_workflow_action", <<g.job>>)

\* The server holds one workflow and one coordinator, each owned by some user.
OozieInit ==
  /\ \E o \in Usernames :
       oozieWorkflows = [j \in {WorkflowId} |->
                           [id |-> j, user |-> o, status |-> "RUNNING"]]
  /\ \E o \in Usernames :
       oozieCoordinators = [j \in {CoordinatorId} |->
                              [id |-> j, user |-> o, status |-> "RUNNING"]]
  /\ request = [view |-> "none", user |-> [username |-> "alice", is_superuser |-> FALSE],
                method |-> "GET", job_id |-> NoArg, arg |-> NoArg]
  /\ events = <<>>
  /\ gates = <<>>
  /\ response = NoResponse

ManageOozieJobs ==
  /\ UNCHANGED notOozie
  /\ \E u \in Users, m \in {"GET", "POST"}, j \in JobIds, a \in ControlActions,
          f \in BOOLEAN :
         manage_oozie_jobs(u, m, j, a, f)

ListOozieWorkflow ==
  /\ UNCHANGED notOozie
  /\ \E u \in Users, j \in JobIds, c \in JobIds \cup {NoArg}, f \in BOOLEAN :
         list_oozie_workflow(u, j, c, f)

ListOozieCoordinator ==
  /\ UNCHANGED notOozie
  /\ \E u \in Users, j \in JobIds : list_oozie_coordinator(u, j)

ListOozieWorkflowAction ==
  /\ UNCHANGED notOozie
  /\ \E u \in Users, a \in ActionIds, k \in BOOLEAN :
         list_oozie_workflow_action(u, a, k)

OozieNext ==
  \/ ManageOozieJobs
  \/ ListOozieWorkflow
  \/ ListOozieCoordinator
  \/ ListOozieWorkflowAction

\* The dashboard before any request.
OozieIdle ==
  /\ oozieWorkflows = <<>>
  /\ oozieCoordinators = <<>>
  /\ request = [view |-> "none", user |-> [username |-> "alice", is_superuser |-> FALSE],
                method |-> "GET", job_id |-> NoArg, arg |-> NoArg]
  /\ events = <<>>
  /\ gates = <<>>
  /\ response = NoResponse

(***************************************************************************)
(* Claims about the Oozie dashboard (checked under SpecOozie)              *)
(***************************************************************************)

\* The positions of the events of one kind in the handler's record.
EventsOf(name) == {i \in 1..Len(events) : events[i].ev = name}

\* The owner the server records for a job id.
RecordedOwner(job_id) ==
  IF EndsWithW(job_id) THEN OozieGetJob(job_id).user
                       ELSE OozieGetCoordinator(job_id).user

\* C3: whenever the gate has fetched a job, it returns that job if and only
\* if the requester is a superuser or the requester's user name equals the
\* job's recorded owner; for every other requester it returns no job and the
\* request fails with the permission error.
C3_GateReturnsJobIffAllowed ==
  \A i \in 1..Len(gates) :
    LET g       == gates[i]
        allowed == request.user.is_superuser
                     \/ RecordedOwner(g.id) = request.user.username
    IN  g.fetched # NoJob =>
          /\ g.fetched.id = g.id
          /\ g.fetched.user = RecordedOwner(g.id)
          /\ (g.ret = "job" /\ g.job = g.fetched) <=> allowed
          /\ ~allowed => /\ g.ret = "denied"
                         /\ g.job = NoJob
                         /\ response = Popup("permission_denied")

\* C3 witness: one request in which the gate returned a job to its owner, who
\* is not a superuser, and then refused the same requester another job.
C3_Witness ==
  /\ ~request.user.is_superuser
  /\ Len(gates) = 2
  /\ gates[1].ret = "job" /\ gates[1].job.user = request.user.username
  /\ gates[2].ret = "denied" /\ gates[2].fetched.user # request.user.username

\* C4 (state part): in every view that takes a job id, a rendering of job or action
\* details and a call of job_control come only after the gate has returned
\* that job; every job a view renders was returned by the gate; and when a
\* gate call fails, job_control is never called, the server's jobs are left
\* alone and nothing is rendered.
C4_GateBeforeDetailsAndControl_State ==
  /\ \A i \in EventsOf("render") \cup EventsOf("job_control") :
       \E k \in 1..(i - 1) : events[k] = Ev("return_job", events[i].id)
  /\ response.kind = "render" =>
       /\ EventsOf("render") # {}
       /\ \A n \in 1..Len(response.jobs) :
            \E k \in 1..Len(gates) :
              gates[k].ret = "job" /\ gates[k].job = response.jobs[n]
  /\ response.kind = "json" =>
       \E k \in 1..Len(gates) : gates[k].ret = "job" /\ gates[k].id = request.job_id
  /\ (\E k \in 1..Len(gates) : gates[k].ret # "job") =>
       /\ EventsOf("render") = {}
       /\ EventsOf("job_control") = {}
       /\ response.kind = "popup"

\* C4, on the server's side: a request whose gate fails changes no job.
C4_FailedGateLeavesJobs ==
  (\E k \in 1..Len(gates') : gates'[k].ret # "job")
    => UNCHANGED <<oozieWorkflows, oozieCoordinators>>

\* C4: the gate comes before any rendering of job details and before any
\* job control, in every state and over every step.
C4_GateBeforeDetailsAndControl ==
  /\ []C4_GateBeforeDetailsAndControl_State
  /\ [][C4_FailedGateLeavesJobs]_vars

\* C4 witness: a job-control request that passed the gate and changed the
\* job's status.
C4_Witness ==
  /\ request.view = "manage_oozie_jobs"
  /\ response = Json(0)
  /\ EventsOf("job_control") # {}
  /\ \E j \in DOMAIN oozieWorkflows : oozieWorkflows[j].status = "KILLED"

\* C5: when the gate denies a requester, exactly one access-warning audit
\* record is written, for the denied job, and it is written before the
\* permission error is raised; when no gate call denies, none is written.
C5_OneAuditRecordBeforeDenial ==
  LET denied == {k \in 1..Len(gates) : gates[k].ret = "denied"}
      warns  == EventsOf("access_warn")
      raises == EventsOf("raise_denied")
  IN  /\ denied = {} => warns = {}
      /\ denied # {} =>
           /\ Cardinality(warns) = 1
           /\ Cardinality(raises) = 1
           /\ \A w \in warns, r \in raises :
                /\ w < r
                /\ r = Len(events)
                /\ \A k \in denied : events[w].id = gates[k].id
           /\ response = Popup("permission_denied")

\* C5 witness: the workflow "0001-W" asked for by a requester who is neither
\* its owner nor a superuser.
C5_Witness ==
  /\ request.job_id = WorkflowId
  /\ ~request.user.is_superuser
  /\ RecordedOwner(WorkflowId) # request.user.username
  /\ Len(gates) = 1 /\ gates[1].ret = "denied"
  /\ EventsOf("access_warn") # {}

(***************************************************************************)
(* File browser: apps/filebrowser/src/filebrowser/views.py                 *)
(* The filesystem client (request.fs) is not part of these two files: its  *)
(* calls are modelled by path, as the specification's interface lists them *)
(***************************************************************************)

\* The longest text the editor saves.
MaxLen == 1
\* The largest offset and the largest length of a read.
MaxOffset == 3
MaxLength == 3

Min(a, b) == IF a < b THEN a ELSE b
Max(a, b) == IF a > b THEN a ELSE b

\* s[:n] and s[n:] of Python, for n >= 0.
Take(s, n) == SubSeq(s, 1, Min(n, Len(s)))
Drop(s, n) == SubSeq(s, n + 1, Len(s))

\* The editor's text: unicode code points ('A' and e-acute).
Chars == {65, 233}
Texts == UNION {[1..n -> Chars] : n \in 0..MaxLen}
Encodings == {"ascii", "latin-1", "utf-8"}

\* Whether unicode.encode(encoding) can encode a code point.
CanEncodeChar(c, encoding) ==
  CASE encoding = "ascii"   -> c < 128
    [] encoding = "latin-1" -> c < 256
    [] OTHER                -> TRUE

\* The bytes of one code point.
EncodeChar(c, encoding) ==
  IF encoding = "utf-8" /\ c >= 128
    THEN IF c < 2048
           THEN <<192 + (c \div 64), 128 + (c % 64)>>
           ELSE <<224 + (c \div 4096), 128 + ((c \div 64) % 64), 128 + (c % 64)>>
    ELSE <<c>>

\* data.encode(encoding) raises UnicodeEncodeError unless CanEncode.
CanEncode(data, encoding) == \A i \in 1..Len(data) : CanEncodeChar(data[i], encoding)

\* data.encode(encoding)
RECURSIVE Encode(_, _)
Encode(data, encoding) ==
  IF data = <<>> THEN <<>>
  ELSE EncodeChar(Head(data), encoding) \o Encode(Tail(data), encoding)

\* Paths are token sequences; the last token is the path's suffix.
PathF == <<"/f", ".txt">>
PathG == <<"/g", ".gz">>
PathH == <<"/h", ".avro">>
SavePaths == {PathF, PathG}
UserPaths == {PathF, PathG, PathH}

\* path + "._hue_new"
path_dest(path) == Append(path, "._hue_new")
Paths == UserPaths \cup {path_dest(p) : p \in SavePaths}

\* path.endswith(suffix)
EndsWith(path, suffix) == Len(path) > 0 /\ path[Len(path)] = suffix

\* A file: its bytes, its mode (type bits and permission bits), its owner.
NoFile == [exists |-> FALSE, data |-> <<>>, mode |-> 0, user |-> "", group |-> ""]
File(data, perm, user, group) ==
  [exists |-> TRUE, data |-> data, mode |-> 32768 + perm, user |-> user, group |-> group]

\* A file as open(path, "w") creates it: empty, rw-r--r--, owned by the
\* requesting user.
NewFile == File(<<>>, 420, "alice", "users")

\* stat.S_IMODE(mode): the permission bits of a mode.
S_IMODE(mode) == mode % 4096

\* The filesystem client's calls on the files: what each leaves.
FsCreate(files, path) == [files EXCEPT ![path] = NewFile]
FsAppend(files, path, bytes) == [files EXCEPT ![path].data = @ \o bytes]
FsRemove(files, path) == [files EXCEPT ![path] = NoFile]
FsRename(files, src, dst) == [files EXCEPT ![dst] = files[src], ![src] = NoFile]
FsChmod(files, path, perm) ==
  [files EXCEPT ![path].mode = (@ - S_IMODE(@)) + perm]
FsChown(files, path, user, group) ==
  [files EXCEPT ![path].user = user, ![path].group = group]

\* Whether a call fails for outside reasons (an I/O error, a lost connection).
Faults == IF faulty THEN BOOLEAN ELSE {FALSE}

\* One filesystem call of a request: the call, its path, the handle it is
\* made on (0 when on none) and whether it succeeded.
Call(op, path, h, ok) == [op |-> op, path |-> path, h |-> h, ok |-> ok]

NoError == "none"
NoLocal == [pending |-> NoError, cur_stats |-> NoFile]
NoReq == [path |-> <<>>, data |-> <<>>, encoding |-> "", before |-> NoFile,
          overwrite |-> FALSE]

\* A saver's request ends, with the exception it raises (or NoError).
Finish(p, error) ==
  /\ pc' = [pc EXCEPT ![p] = "done"]
  /\ raised' = [raised EXCEPT ![p] = error]

Goto(p, label) ==
  /\ pc' = [pc EXCEPT ![p] = label]
  /\ UNCHANGED raised

Log(p, call) == calls' = [calls EXCEPT ![p] = Append(@, call)]

\* save_file (lines 201-213): the form is valid and names a path; the branch
\* on fs.exists(path).
save_file(p, path, data, encoding) ==
  /\ pc[p] = "idle"
  /\ req' = [req EXCEPT ![p] = [path |-> path, data |-> data, encoding |-> encoding,
                                before |-> fsFiles[path],
                                overwrite |-> fsFiles[path].exists]]
  /\ local' = [local EXCEPT ![p] = NoLocal]
  /\ Log(p, Call("exists", path, 0, TRUE))
  /\ raised' = [raised EXCEPT ![p] = NoError]
  /\ pc' = [pc EXCEPT ![p] = IF fsFiles[path].exists THEN "ow_open" ELSE "nf_open"]
  /\ UNCHANGED <<fsFiles, savers, faulty, renamed, readResult>>

\* An open of the staging file that keeps what a file of that name holds
\* (mode "a" in place of "w").
OverwriteOpenAppend(p, fail) ==
  LET dest == path_dest(req[p].path) IN
  /\ pc[p] = "ow_open"
  /\ Log(p, Call("open", dest, 1, ~fail))
  /\ IF fail
       THEN /\ Finish(p, "open")
            /\ UNCHANGED fsFiles
       ELSE /\ Goto(p, "ow_write")
            /\ fsFiles' = IF fsFiles[dest].exists THEN fsFiles
                                                  ELSE FsCreate(fsFiles, dest)
  /\ UNCHANGED <<savers, faulty, req, local, renamed, readResult>>

\* _do_overwrite_save, line 236: new_file = fs.open(path_dest, "w")
OverwriteOpen(p, fail) ==
  LET dest == path_dest(req[p].path) IN
  /\ pc[p] = "ow_open"
  /\ Log(p, Call("open", dest, 1, ~fail))
  /\ IF fail
       THEN /\ Finish(p, "open")
            /\ UNCHANGED fsFiles
       ELSE /\ Goto(p, "ow_write")
            /\ fsFiles' = FsCreate(fsFiles, dest)
  /\ UNCHANGED <<savers, faulty, req, local, renamed, readResult>>

\* line 239: new_file.write(data.encode(encoding)); a write that fails may
\* have written the first k bytes.
OverwriteWrite(p, fail, k) ==
  LET dest  == path_dest(req[p].path)
      bytes == Encode(req[p].data, req[p].encoding)
  IN
  /\ pc[p] = "ow_write"
  /\ Goto(p, "ow_close")
  /\ IF ~CanEncode(req[p].data, req[p].encoding)
       THEN /\ Log(p, Call("encode", dest, 0, FALSE))
            /\ local' = [local EXCEPT ![p].pending = "encode"]
            /\ UNCHANGED fsFiles
     ELSE IF fail \/ ~fsFiles[dest].exists
       THEN /\ Log(p, Call("write", dest, 1, FALSE))
            /\ local' = [local EXCEPT ![p].pending = "write"]
            /\ fsFiles' = IF fsFiles[dest].exists
                            THEN FsAppend(fsFiles, dest, Take(bytes, k))
                            ELSE fsFiles
     ELSE /\ Log(p, Call("write", dest, 1, TRUE))
          /\ fsFiles' = FsAppend(fsFiles, dest, bytes)
          /\ UNCHANGED local
  /\ UNCHANGED <<savers, faulty, req, renamed, readResult>>

\* A close after which the save goes on whatever write and close raised.
OverwriteCloseSwallows(p, fail) ==
  LET dest    == path_dest(req[p].path)
      pending == IF fail THEN "close" ELSE local[p].pending
  IN
  /\ pc[p] = "ow_close"
  /\ Log(p, Call("close", dest, 1, ~fail))
  /\ local' = [local EXCEPT ![p].pending = pending]
  /\ Goto(p, "ow_stats")
  /\ UNCHANGED <<fsFiles, savers, faulty, req, renamed, readResult>>

\* lines 241-243: finally new_file.close(); an exception of close replaces
\* the one of write; any exception leads to the except clause.
OverwriteClose(p, fail) ==
  LET dest    == path_dest(req[p].path)
      pending == IF fail THEN "close" ELSE local[p].pending
  IN
  /\ pc[p] = "ow_close"
  /\ Log(p, Call("close", dest, 1, ~fail))
  /\ local' = [local EXCEPT ![p].pending = pending]
  /\ Goto(p, IF pending # NoError THEN "ow_cleanup" ELSE "ow_stats")
  /\ UNCHANGED <<fsFiles, savers, faulty, req, renamed, readResult>>

\* lines 243-250: remove the staging file (a failure is ignored), raise e.
OverwriteCleanup(p, fail) ==
  LET dest == path_dest(req[p].path)
      ok   == ~fail /\ fsFiles[dest].exists
  IN
  /\ pc[p] = "ow_cleanup"
  /\ Log(p, Call("remove", dest, 0, ok))
  /\ fsFiles' = IF ok THEN FsRemove(fsFiles, dest) ELSE fsFiles
  /\ Finish(p, local[p].pending)
  /\ UNCHANGED <<savers, faulty, req, local, renamed, readResult>>

\* A save that skips the copy of the permissions and goes on to the removal.
OverwriteStatsSkipsCopy(p, fail) ==
  LET path == req[p].path
      ok   == ~fail /\ fsFiles[path].exists
  IN
  /\ pc[p] = "ow_stats"
  /\ Log(p, Call("stats", path, 0, ok))
  /\ IF ok
       THEN /\ local' = [local EXCEPT ![p].cur_stats = fsFiles[path]]
            /\ Goto(p, "ow_remove")
       ELSE /\ Finish(p, "stats")
            /\ UNCHANGED local
  /\ UNCHANGED <<fsFiles, savers, faulty, req, renamed, readResult>>

\* line 253: cur_stats = fs.stats(path)
OverwriteStats(p, fail) ==
  LET path == req[p].path
      ok   == ~fail /\ fsFiles[path].exists
  IN
  /\ pc[p] = "ow_stats"
  /\ Log(p, Call("stats", path, 0, ok))
  /\ IF ok
       THEN /\ local' = [local EXCEPT ![p].cur_stats = fsFiles[path]]
            /\ Goto(p, "ow_chmod")
       ELSE /\ Finish(p, "stats")
            /\ UNCHANGED local
  /\ UNCHANGED <<fsFiles, savers, faulty, req, renamed, readResult>>

\* lines 254-259: chmod of the staging file; a failure is logged and ignored.
OverwriteChmod(p, fail) ==
  LET dest == path_dest(req[p].path)
      ok   == ~fail /\ fsFiles[dest].exists
  IN
  /\ pc[p] = "ow_chmod"
  /\ Log(p, Call("chmod", dest, 0, ok))
  /\ fsFiles' = IF ok THEN FsChmod(fsFiles, dest, S_IMODE(local[p].cur_stats.mode))
                      ELSE fsFiles
  /\ Goto(p, "ow_chown")
  /\ UNCHANGED <<savers, faulty, req, local, renamed, readResult>>

\* lines 261-266: chown of the staging file; a failure is logged and ignored.
OverwriteChown(p, fail) ==
  LET dest == path_dest(req[p].path)
      ok   == ~fail /\ fsFiles[dest].exists
  IN
  /\ pc[p] = "ow_chown"
  /\ Log(p, Call("chown", dest, 0, ok))
  /\ fsFiles' = IF ok THEN FsChown(fsFiles, dest, local[p].cur_stats.user,
                                   local[p].cur_stats.group)
                      ELSE fsFiles
  /\ Goto(p, "ow_remove")
  /\ UNCHANGED <<savers, faulty, req, local, renamed, readResult>>

\* line 269: fs.remove(path)
OverwriteRemove(p, fail) ==
  LET path == req[p].path
      ok   == ~fail /\ fsFiles[path].exists
  IN
  /\ pc[p] = "ow_remove"
  /\ Log(p, Call("remove", path, 0, ok))
  /\ IF ok
       THEN /\ fsFiles' = FsRemove(fsFiles, path)
            /\ Goto(p, "ow_rename")
       ELSE /\ Finish(p, "remove")
            /\ UNCHANGED fsFiles
  /\ UNCHANGED <<savers, faulty, req, local, renamed, readResult>>

\* A rename whose failure is swallowed: the save ends without an error.
OverwriteRenameSwallows(p, fail) ==
  LET path == req[p].path
      dest == path_dest(path)
      ok   == ~fail /\ fsFiles[dest].exists /\ ~fsFiles[path].exists
  IN
  /\ pc[p] = "ow_rename"
  /\ Log(p, Call("rename", dest, 0, ok))
  /\ fsFiles' = IF ok THEN FsRename(fsFiles, dest, path) ELSE fsFiles
  /\ renamed' = IF ok THEN p ELSE renamed
  /\ Finish(p, NoError)
  /\ UNCHANGED <<savers, faulty, req, local, readResult>>

\* line 275: fs.rename(path_dest, path); the rename fails when the staging
\* file is gone or the destination exists.
OverwriteRename(p, fail) ==
  LET path == req[p].path
      dest == path_dest(path)
      ok   == ~fail /\ fsFiles[dest].exists /\ ~fsFiles[path].exists
  IN
  /\ pc[p] = "ow_rename"
  /\ Log(p, Call("rename", dest, 0, ok))
  /\ fsFiles' = IF ok THEN FsRename(fsFiles, dest, path) ELSE fsFiles
  /\ renamed' = IF ok THEN p ELSE renamed
  /\ Finish(p, IF ok THEN NoError ELSE "rename")
  /\ UNCHANGED <<savers, faulty, req, local, readResult>>

\* _do_newfile_save, line 284: new_file = fs.open(path, "w")
NewfileOpen(p, fail) ==
  LET path == req[p].path IN
  /\ pc[p] = "nf_open"
  /\ Log(p, Call("open", path, 1, ~fail))
  /\ IF fail
       THEN /\ Finish(p, "open")
            /\ UNCHANGED fsFiles
       ELSE /\ Goto(p, "nf_write")
            /\ fsFiles' = FsCreate(fsFiles, path)
  /\ UNCHANGED <<savers, faulty, req, local, renamed, readResult>>

\* line 286: new_file.write(data.encode(encoding))
NewfileWrite(p, fail, k) ==
  LET path  == req[p].path
      bytes == Encode(req[p].data, req[p].encoding)
  IN
  /\ pc[p] = "nf_write"
  /\ Goto(p, "nf_close")
  /\ IF ~CanEncode(req[p].data, req[p].encoding)
       THEN /\ Log(p, Call("encode", path, 0, FALSE))
            /\ local' = [local EXCEPT ![p].pending = "encode"]
            /\ UNCHANGED fsFiles
     ELSE IF fail \/ ~fsFiles[path].exists
       THEN /\ Log(p, Call("write", path, 1, FALSE))
            /\ local' = [local EXCEPT ![p].pending = "write"]
            /\ fsFiles' = IF fsFiles[path].exists
                            THEN FsAppend(fsFiles, path, Take(bytes, k))
                            ELSE fsFiles
     ELSE /\ Log(p, Call("write", path, 1, TRUE))
          /\ fsFiles' = FsAppend(fsFiles, path, bytes)
          /\ UNCHANGED local
  /\ UNCHANGED <<savers, faulty, req, renamed, readResult>>

\* lines 287-288: finally new_file.close(); the exception propagates.
NewfileClose(p, fail) ==
  LET path    == req[p].path
      pending == IF fail THEN "close" ELSE local[p].pending
  IN
  /\ pc[p] = "nf_close"
  /\ Log(p, Call("close", path, 1, ~fail))
  /\ local' = [local EXCEPT ![p].pending = pending]
  /\ Finish(p, pending)
  /\ UNCHANGED <<fsFiles, savers, faulty, req, renamed, readResult>>

\* ---- Reading ------------------------------------------------------------

\* The codec argument when the caller gives none (None or '').
Unset == ""
Codecs == {Unset, "none", "gzip", "avro"}

\* What can go wrong, for outside reasons, in one read_contents call: the
\* probe of the magic bytes, the open of line 608, the reader's own open, its
\* seek/read/decode, its close.
ReadFaults ==
  IF faulty THEN {"none", "probe", "open", "reader_open", "read", "close"}
            ELSE {"none"}

\* The magic numbers: '\x1f\x8b' and 'Obj'.
GzipMagic == <<31, 139>>
AvroMagic == <<79, 98, 106>>

\* detect_gzip(contents)
detect_gzip(contents) == Take(contents, 2) = GzipMagic

\* detect_avro(contents)
detect_avro(contents) == Take(contents, 3) = AvroMagic

\* GzipFile(...).read(): the stream after the magic number is a run-length
\* code, <<count, byte>> pairs; a stream of another shape does not decompress.
GunzipOk(bytes) ==
  /\ Len(bytes) >= 2
  /\ Take(bytes, 2) = GzipMagic
  /\ (Len(bytes) - 2) % 2 = 0

RECURSIVE Expand(_)
Expand(body) ==
  IF Len(body) < 2 THEN <<>>
  ELSE [i \in 1..body[1] |-> body[2]] \o Expand(Drop(body, 2))

Gunzip(bytes) == Expand(Drop(bytes, 2))

\* An Avro container after its magic number: records <<n, b1, ..., bn>>.
\* AvroRecordsOk: every record is complete.
RECURSIVE AvroRecordsOk(_)
AvroRecordsOk(rest) ==
  \/ rest = <<>>
  \/ /\ Len(rest) >= 1 + rest[1]
     /\ AvroRecordsOk(Drop(rest, 1 + rest[1]))

\* A loop that also drops the first record when it crosses the length.
RECURSIVE AvroCollectStrict(_, _, _, _)
AvroCollectStrict(rest, consumed, length, count) ==
  IF rest = <<>> THEN <<>>
  ELSE LET n           == rest[1]
           read_length == consumed + 1 + n
       IN  IF read_length > length
             THEN <<>>
             ELSE SubSeq(rest, 2, 1 + n) \o <<10>>
                    \o AvroCollectStrict(Drop(rest, 1 + n), read_length, length,
                                         count + 1)

\* The loop of _read_avro (lines 632-638): `consumed` is fhandle.tell() -
\* read_start after the datum just read, `count` is len(contents_list).
RECURSIVE AvroCollect(_, _, _, _)
AvroCollect(rest, consumed, length, count) ==
  IF rest = <<>> THEN <<>>
  ELSE LET n           == rest[1]
           read_length == consumed + 1 + n
       IN  IF read_length > length /\ count > 0
             THEN <<>>
             ELSE SubSeq(rest, 2, 1 + n) \o <<10>>
                    \o AvroCollect(Drop(rest, 1 + n), read_length, length, count + 1)

\* What a reader (or read_contents) answers: "ok" with the contents, "popup"
\* (a PopupException) or "error" (another exception), and its calls.
Answer(ret, why, contents, cs) ==
  [ret |-> ret, why |-> why, contents |-> contents, calls |-> cs]

\* The calls of a reader whose open succeeded and whose body ended, closed in
\* the finally clause; a failing close raises in place of the body's outcome.
ReaderEnd(path, h, fault, bodyOk, why, contents) ==
  LET cs == <<Call("open", path, h, TRUE), Call("seek", path, h, TRUE),
              Call("read", path, h, bodyOk), Call("close", path, h, fault # "close")>>
  IN  IF fault = "close" THEN Answer("error", "close", <<>>, cs)
      ELSE IF bodyOk THEN Answer("ok", "", contents, cs)
      ELSE Answer("popup", why, <<>>, cs)

\* A reader whose fs.open fails: the finally clause then closes a handle that
\* was never bound.
ReaderOpenFailed(path, h) ==
  Answer("error", "unbound_fhandle", <<>>, <<Call("open", path, h, FALSE)>>)

\* A _read_simple that forgets to seek: it reads from the start of the file.
read_simple_no_seek(files, path, offset, length, h, fault) ==
  IF fault = "reader_open" \/ ~files[path].exists
    THEN ReaderOpenFailed(path, h)
    ELSE ReaderEnd(path, h, fault, fault # "read", "read_failed",
                   Take(files[path].data, length))

\* _read_simple(fs, path, offset, length), reading on handle h.
read_simple(files, path, offset, length, h, fault) ==
  IF fault = "reader_open" \/ ~files[path].exists
    THEN ReaderOpenFailed(path, h)
    ELSE ReaderEnd(path, h, fault, fault # "read", "read_failed",
                   Take(Drop(files[path].data, offset), length))

\* _read_gzip(fs, path, offset, length)
read_gzip(files, path, offset, length, h, fault) ==
  IF offset # 0
    THEN Answer("popup", "gzip_offset", <<>>, <<>>)
  ELSE IF fault = "reader_open" \/ ~files[path].exists
    THEN ReaderOpenFailed(path, h)
  ELSE LET cs == <<Call("open", path, h, TRUE),
                   Call("read", path, h, fault # "read"),
                   Call("close", path, h, fault # "close")>>
       IN  IF fault = "close" THEN Answer("error", "close", <<>>, cs)
           ELSE IF fault = "read" \/ ~GunzipOk(files[path].data)
             THEN Answer("popup", "decompress_failed", <<>>, cs)
           ELSE Answer("ok", "", Take(Gunzip(files[path].data), length), cs)

\* _read_avro(fs, path, offset, length)
read_avro(files, path, offset, length, h, fault) ==
  IF fault = "reader_open" \/ ~files[path].exists
    THEN ReaderOpenFailed(path, h)
    ELSE LET sought == Drop(files[path].data, offset)
             ok     == /\ fault # "read"
                       /\ detect_avro(sought)
                       /\ AvroRecordsOk(Drop(sought, 3))
         IN  ReaderEnd(path, h, fault, ok, "avro_failed",
                       IF ok THEN AvroCollect(Drop(sought, 3), 0, length, 0) ELSE <<>>)

\* Lines 599-606: the codec and the offset read_contents settles on, and the
\* probe it makes (a handle it opens, reads and leaves).
ProbeLen(codec_type, path) ==
  IF codec_type # Unset THEN 0
  ELSE IF EndsWith(path, ".gz") THEN 2
  ELSE IF EndsWith(path, ".avro") THEN 3
  ELSE 0

Probed(files, codec_type, path) == Take(files[path].data, ProbeLen(codec_type, path))

\* A resolution that trusts the suffix of the path and inspects nothing.
ResolveCodecBySuffix(files, codec_type, path) ==
  IF codec_type # Unset THEN codec_type
  ELSE IF EndsWith(path, ".gz") THEN "gzip"
  ELSE IF EndsWith(path, ".avro") THEN "avro"
  ELSE "none"

ResolveCodec(files, codec_type, path) ==
  IF codec_type # Unset THEN codec_type
  ELSE IF EndsWith(path, ".gz") /\ detect_gzip(Probed(files, codec_type, path))
    THEN "gzip"
  ELSE IF EndsWith(path, ".avro") /\ detect_avro(Probed(files, codec_type, path))
    THEN "avro"
  ELSE "none"

ResolveOffset(files, codec_type, path, offset) ==
  IF codec_type = Unset /\ ResolveCodec(files, codec_type, path) = "gzip"
    THEN 0 ELSE offset

\* read_contents(codec_type, path, fs, offset, length): the tuple it returns
\* (or the exception), and its filesystem calls in order.
read_contents(files, codec_type, path, offset, length, fault) ==
  LET probes == IF ProbeLen(codec_type, path) > 0 THEN 1 ELSE 0
      probeOk == files[path].exists /\ fault # "probe"
      probeCalls ==
        IF probes = 0 THEN <<>>
        ELSE IF probeOk THEN <<Call("open", path, 1, TRUE), Call("read", path, 1, TRUE)>>
        ELSE <<Call("open", path, 1, FALSE)>>
      codec == ResolveCodec(files, codec_type, path)
      off   == ResolveOffset(files, codec_type, path, offset)
      openOk == files[path].exists /\ fault # "open"
      open608 == <<Call("open", path, probes + 1, openOk)>>
      h     == probes + 2
      r     == IF codec = "gzip" THEN read_gzip(files, path, off, length, h, fault)
               ELSE IF codec = "avro" THEN read_avro(files, path, off, length, h, fault)
               ELSE read_simple(files, path, off, length, h, fault)
      out(ret, why, c, o, contents, cs) ==
        [ret |-> ret, why |-> why, codec |-> c, offset |-> o, length |-> length,
         contents |-> contents, calls |-> cs]
  IN  IF probes = 1 /\ ~probeOk
        THEN out("error", "ioerror", codec_type, offset, <<>>, probeCalls)
      ELSE IF ~openOk
        THEN out("error", "ioerror", codec, off, <<>>, probeCalls \o open608)
      ELSE out(r.ret, r.why, codec, off, r.contents, probeCalls \o open608 \o r.calls)

NoRead ==
  [codec_type |-> Unset, path |-> <<>>, offset |-> 0, length |-> 0, fault |-> "none",
   result |-> [ret |-> "none", why |-> "", codec |-> Unset, offset |-> 0, length |-> 0,
               contents |-> <<>>, calls |-> <<>>]]

\* A read_contents call: one request.
ReadContents(codec_type, path, offset, length, fault) ==
  /\ readResult = NoRead
  /\ readResult' = [codec_type |-> codec_type, path |-> path, offset |-> offset,
                    length |-> length, fault |-> fault,
                    result |-> read_contents(fsFiles, codec_type, path, offset,
                                             length, fault)]
  /\ UNCHANGED <<fsFiles, savers, faulty, pc, req, local, calls, raised, renamed>>

\* ---- Directory listing ---------------------------------------------------

\* The most entries a listed directory holds, and the largest page number
\* and page size asked for.
MaxEntries == 3
MaxPageNum == 2
MaxPageSize == 2

\* Names and path segments are strings, as sequences of character codes.
DotDot == <<46, 46>>
Dot == <<46>>
SegU == <<117>>
SegA == <<97>>

\* Directory paths, as sequences of segments: "/", "/u", "/u/a", "/u/..".
RootPath == <<>>
DirPaths == {RootPath, <<SegU>>, <<SegU, SegA>>, <<SegU, DotDot>>}

\* Hdfs.normpath(path): "." dropped, ".." climbs, "/.." is "/".
RECURSIVE NormInto(_, _)
NormInto(done, rest) ==
  IF rest = <<>> THEN done
  ELSE IF Head(rest) = Dot THEN NormInto(done, Tail(rest))
  ELSE IF Head(rest) = DotDot
    THEN NormInto(IF done = <<>> THEN <<>> ELSE SubSeq(done, 1, Len(done) - 1),
                  Tail(rest))
  ELSE NormInto(Append(done, Head(rest)), Tail(rest))

normpath(path) == NormInto(<<>>, path)

\* request.fs.join(path, "..")
JoinParent(path) == Append(path, DotDot)

\* A stat record of the filesystem client.
Stat(path, name, isDir, size, atime, mtime, user, group) ==
  [path |-> path, name |-> name, isDir |-> isDir, size |-> size, atime |-> atime,
   mtime |-> mtime, user |-> user, group |-> group]

\* What a directory may hold: two files and a directory, some with equal
\* sizes, times and owners.
EntryPool(dir) ==
  {Stat(Append(dir, <<97>>),      <<97>>,      FALSE, 10, 1, 1, <<97>>, <<103>>),
   Stat(Append(dir, <<98, 46>>),  <<98, 46>>,  FALSE, 20, 2, 1, <<97>>, <<104>>),
   Stat(Append(dir, <<97, 98>>),  <<97, 98>>,  TRUE,  10, 1, 2, <<98>>, <<103>>)}

\* request.fs.listdir_stats(path): the entries, in the client's order.
RECURSIVE SeqsOver(_, _)
SeqsOver(S, n) ==
  IF n = 0 \/ S = {} THEN {<<>>}
  ELSE {<<>>} \cup UNION {{<<x>> \o t : t \in SeqsOver(S \ {x}, n - 1)} : x \in S}

Listings(dir) == SeqsOver(EntryPool(dir), MaxEntries)

\* request.fs.stats(parent_path): the parent directory's own record.
ParentStat(path) ==
  LET parent == normpath(JoinParent(path))
      name   == IF parent = <<>> THEN <<>> ELSE parent[Len(parent)]
  IN  Stat(parent, name, TRUE, 0, 1, 1, <<104>>, <<104>>)

\* filter_str in sb['name']
RECURSIVE IsPrefix(_, _)
IsPrefix(f, name) ==
  \/ f = <<>>
  \/ /\ name # <<>>
     /\ Head(f) = Head(name)
     /\ IsPrefix(Tail(f), Tail(name))

Contains(name, f) == \E i \in 0..Len(name) : IsPrefix(f, Drop(name, i))

\* The filters tried: none, "a", ".", "..", "z".
Filters == {<<>>, <<97>>, <<46>>, DotDot, <<122>>}

\* The sort attributes listdir_paged accepts (line 397), and the values of
\* sortby tried: none, each accepted one, and one that is not accepted.
SortKeys == {"type", "name", "atime", "mtime", "user", "group", "size"}
NoSort == "None"
SortBys == SortKeys \cup {NoSort, "bogus"}

\* The 'type' attribute of a stat record.
TypeOf(st) == IF st.isDir THEN <<100>> ELSE <<102>>

\* operator.attrgetter(sortby)
Attr(st, sortby) ==
  CASE sortby = "type"  -> TypeOf(st)
    [] sortby = "name"  -> st.name
    [] sortby = "atime" -> <<st.atime>>
    [] sortby = "mtime" -> <<st.mtime>>
    [] sortby = "user"  -> st.user
    [] sortby = "group" -> st.group
    [] sortby = "size"  -> <<st.size>>

\* The order of Python on strings (and on numbers, as one-element sequences).
RECURSIVE Less(_, _)
Less(a, b) ==
  IF b = <<>> THEN FALSE
  ELSE IF a = <<>> THEN TRUE
  ELSE IF Head(a) # Head(b) THEN Head(a) < Head(b)
  ELSE Less(Tail(a), Tail(b))

RECURSIVE Reverse(_)
Reverse(s) == IF s = <<>> THEN <<>> ELSE Append(Reverse(Tail(s)), Head(s))

\* list.sort: a stable sort, each element placed after those not greater.
RECURSIVE InsertSorted(_, _, _)
InsertSorted(sortedSoFar, x, sortby) ==
  IF sortedSoFar = <<>> THEN <<x>>
  ELSE IF Less(Attr(x, sortby), Attr(Head(sortedSoFar), sortby))
    THEN <<x>> \o sortedSoFar
  ELSE <<Head(sortedSoFar)>> \o InsertSorted(Tail(sortedSoFar), x, sortby)

RECURSIVE StableSort(_, _)
StableSort(list, sortby) ==
  IF list = <<>> THEN <<>>
  ELSE InsertSorted(StableSort(SubSeq(list, 1, Len(list) - 1), sortby),
                    list[Len(list)], sortby)

\* A variant that sorts ascending and then reverses the result.
sorted_then_reversed(list, sortby, descending) ==
  IF descending THEN Reverse(StableSort(list, sortby)) ELSE StableSort(list, sortby)

\* sorted(list, key=attrgetter(sortby), reverse=descending): with reverse the
\* list is reversed, sorted and reversed again, which keeps equal elements in
\* their first order.
sorted(list, sortby, descending) ==
  IF descending THEN Reverse(StableSort(Reverse(list), sortby))
  ELSE StableSort(list, sortby)

\* filter(lambda sb: filter_str in sb['name'], all_stats)
RECURSIVE FilterByName(_, _)
FilterByName(list, f) ==
  IF list = <<>> THEN <<>>
  ELSE (IF Contains(Head(list).name, f) THEN <<Head(list)>> ELSE <<>>)
         \o FilterByName(Tail(list), f)

\* paginator.Paginator(all_stats, pagesize).page(pagenum).object_list: the
\* slice of the page, empty when the page is out of range.
PageOf(list, pagesize, pagenum) ==
  SubSeq(list, (pagenum - 1) * pagesize + 1, Min(pagenum * pagesize, Len(list)))

\* _massage_stats(request, stats): a new record for display.
massage_stats(st) ==
  [path |-> normpath(st.path), name |-> st.name, stats |-> st,
   type |-> IF st.isDir THEN "dir" ELSE "file"]

MassageAll(list) == [i \in 1..Len(list) |-> massage_stats(list[i])]

NoParentStat == Stat(<<>>, <<>>, FALSE, 0, 0, 0, <<>>, <<>>)

\* What a listing request gave: `fetched` is the list listdir_stats returned,
\* `client_list` that same list object after the request, `parent_stat` the
\* parent's record after the request, `listed` the list that is paginated,
\* `files` the display records handed to the template.
Listing(view, path, fetched, f, sortby, descending, pagenum, pagesize, ret, client_list, parent_stat, listed, files) ==
  [view |-> view, path |-> path, fetched |-> fetched, filter |-> f,
   sortby |-> sortby, descending |-> descending, pagenum |-> pagenum,
   pagesize |-> pagesize, ret |-> ret, client_list |-> client_list,
   parent_stat |-> parent_stat, listed |-> listed, files |-> files]

NoListing ==
  Listing("none", <<>>, <<>>, <<>>, NoSort, FALSE, 1, 1, "none", <<>>,
          NoParentStat, <<>>, <<>>)

\* A variant that inserts the parent's record at the root too.
WithParentAlways(path, fetched) ==
  <<[ParentStat(path) EXCEPT !.path = JoinParent(path), !.name = DotDot]>> \o fetched

\* Lines 377-385: the parent's record, inserted at the head of the list
\* unless the directory is the root.
WithParentPaged(path, fetched) ==
  IF normpath(path) # RootPath
    THEN <<[ParentStat(path) EXCEPT !.path = JoinParent(path), !.name = DotDot]>>
           \o fetched
    ELSE fetched

\* Lines 387-403: the filter, then the sort.
FilteredAndSorted(all_stats, f, sortby, descending) ==
  LET filtered == IF f # <<>> THEN FilterByName(all_stats, f) ELSE all_stats
  IN  IF sortby # NoSort /\ sortby \in SortKeys
        THEN sorted(filtered, sortby, descending)
        ELSE filtered

\* listdir_paged(request, path); isdir: request.fs.isdir(path).
listdir_paged(path, isdir, fetched, f, sortby, descending, pagenum, pagesize) ==
  LET all_stats == WithParentPaged(path, fetched)
      listed    == FilteredAndSorted(all_stats, f, sortby, descending)
      shown     == PageOf(listed, pagesize, pagenum)
      parent    == IF normpath(path) # RootPath THEN all_stats[1] ELSE NoParentStat
  IN  IF ~isdir
        THEN Listing("listdir_paged", path, <<>>, f, sortby, descending, pagenum,
                     pagesize, "popup", <<>>, NoParentStat, <<>>, <<>>)
        ELSE Listing("listdir_paged", path, fetched, f, sortby, descending, pagenum,
                     pagesize, "render", all_stats, parent, listed, MassageAll(shown))

\* Lines 336-343 of listdir: the parent's record keeps its own name.
WithParent(path, fetched) ==
  IF normpath(path) # RootPath
    THEN <<[ParentStat(path) EXCEPT !.path = JoinParent(path)]>> \o fetched
    ELSE fetched

\* listdir(request, path, chooser): no filter, no sort, no pages.
listdir(path, isdir, fetched) ==
  LET stats  == WithParent(path, fetched)
      parent == IF normpath(path) # RootPath THEN stats[1] ELSE NoParentStat
  IN  IF ~isdir
        THEN Listing("listdir", path, <<>>, <<>>, NoSort, FALSE, 1, 1, "popup",
                     <<>>, NoParentStat, <<>>, <<>>)
        ELSE Listing("listdir", path, fetched, <<>>, NoSort, FALSE, 1, 1, "render",
                     stats, parent, stats, MassageAll(stats))

ListIdle == listResult = NoListing

ListdirPaged ==
  /\ UNCHANGED notList
  /\ listResult = NoListing
  /\ \E path \in DirPaths, isdir \in BOOLEAN, f \in Filters, sortby \in SortBys,
        descending \in BOOLEAN, pagenum \in 1..MaxPageNum, pagesize \in 1..MaxPageSize :
       \E fetched \in Listings(normpath(path)) :
         listResult' = listdir_paged(path, isdir, fetched, f, sortby, descending,
                                     pagenum, pagesize)

Listdir ==
  /\ UNCHANGED notList
  /\ listResult = NoListing
  /\ \E path \in DirPaths, isdir \in BOOLEAN :
       \E fetched \in Listings(normpath(path)) :
         listResult' = listdir(path, isdir, fetched)

ListNext ==
  \/ ListdirPaged
  \/ Listdir

\* ---- Display of a part of a file ------------------------------------------

DEFAULT_CHUNK_SIZE_BYTES == 4096
MAX_CHUNK_SIZE_BYTES == 1048576

\* A GET parameter: absent, or the integer it spells.
Absent == <<>>
Given(n) == <<n>>

\* The parameters tried.
Begins == {Absent} \cup {Given(n) : n \in {0, 1, 5, 12}}
Ends == {Absent} \cup {Given(n) : n \in {0, 4, 5, 11, 1048577}}
OffsetParams == {Absent} \cup {Given(n) : n \in {-1, 0, 3}}
LengthParams == {Absent} \cup {Given(n) : n \in {-1, 0, 10, 1048576, 1048577}}
Modes == {Unset, "binary", "text", "hex"}
Compressions == {Unset, "none", "gzip"}
DisplayEncodings == {Unset, "ascii"}

\* unicode(contents, encoding, errors='replace') puts no replacement
\* character: every byte decodes (utf-8: ASCII and two-byte sequences).
RECURSIVE Decodes(_, _)
Decodes(bytes, encoding) ==
  IF bytes = <<>> THEN TRUE
  ELSE IF Head(bytes) < 128 THEN Decodes(Tail(bytes), encoding)
  ELSE IF encoding = "latin-1" THEN Decodes(Tail(bytes), encoding)
  ELSE IF encoding = "utf-8"
    THEN /\ Head(bytes) \in 194..223
         /\ Len(bytes) >= 2
         /\ bytes[2] \in 128..191
         /\ Decodes(Drop(bytes, 2), encoding)
  ELSE FALSE

\* Lines 505-520: the offset and the length display settles on. begin is
\* made zero-based (line 511) before it is used; an end of 0 is falsy and
\* sends the request down the offset/length branch.
BeginZero(begin) == (IF begin = Absent THEN 1 ELSE begin[1]) - 1
Ranged(end) == end # Absent /\ end[1] # 0

DisplayOffset(begin, end, offsetP) ==
  IF Ranged(end) THEN BeginZero(begin)
  ELSE IF offsetP = Absent THEN 0 ELSE offsetP[1]

DisplayLength(begin, end, lengthP) ==
  IF Ranged(end) THEN end[1] - BeginZero(begin)
  ELSE IF lengthP = Absent THEN DEFAULT_CHUNK_SIZE_BYTES ELSE lengthP[1]

\* A validation without the cap on the length.
RangeErrorNoCap(mode, offset, length) ==
  IF mode # Unset /\ mode \notin {"binary", "text"} THEN "mode"
  ELSE IF offset < 0 THEN "offset_negative"
  ELSE IF length < 0 THEN "length_negative"
  ELSE ""

\* Lines 525-532: the checks before the read; "" when they pass.
RangeError(mode, offset, length) ==
  IF mode # Unset /\ mode \notin {"binary", "text"} THEN "mode"
  ELSE IF offset < 0 THEN "offset_negative"
  ELSE IF length < 0 THEN "length_negative"
  ELSE IF length > MAX_CHUNK_SIZE_BYTES THEN "length_max"
  ELSE ""

NoView ==
  [offset |-> 0, length |-> 0, end |-> 0, mode |-> Unset, compression |-> Unset,
   size |-> 0, contents |-> <<>>, masked_binary_data |-> FALSE]

\* What a display request gave: `reads` holds the arguments of its
\* read_contents call, if it made one.
Displayed(ret, why, reads, view) ==
  [ret |-> ret, why |-> why, reads |-> reads, view |-> view]

\* display(request, path)
display(files, path, begin, end, offsetP, lengthP, mode, compression, encoding) ==
  LET offset == DisplayOffset(begin, end, offsetP)
      length == DisplayLength(begin, end, lengthP)
      why    == RangeError(mode, offset, length)
      codec  == IF mode = "binary" THEN "none" ELSE compression
      r      == read_contents(files, codec, path, offset, length, "none")
      args   == <<[codec_type |-> codec, offset |-> offset, length |-> length]>>
      enc    == IF encoding = Unset THEN "utf-8" ELSE encoding
      is_binary == ~Decodes(r.contents, enc)
      shown  == IF mode # Unset THEN mode
                ELSE IF is_binary THEN "binary" ELSE "text"
  IN  IF ~files[path].exists
        THEN Displayed("popup", "not_a_file", <<>>, NoView)
      ELSE IF Ranged(end) /\ BeginZero(begin) >= end[1]
        THEN Displayed("popup", "range", <<>>, NoView)
      ELSE IF why # ""
        THEN Displayed("popup", why, <<>>, NoView)
      ELSE IF r.ret # "ok"
        THEN Displayed(r.ret, r.why, args, NoView)
      ELSE Displayed("render", "", args,
             [offset |-> r.offset, length |-> r.length,
              end |-> r.offset + Len(r.contents), mode |-> shown,
              compression |-> r.codec, size |-> Len(files[path].data),
              contents |-> r.contents,
              masked_binary_data |-> IF shown = "binary" THEN FALSE ELSE is_binary])

NoDisplay ==
  [path |-> <<>>, begin |-> Absent, end |-> Absent, offset |-> Absent,
   length |-> Absent, mode |-> Unset, compression |-> Unset, encoding |-> Unset,
   result |-> Displayed("none", "", <<>>, NoView)]

DisplayIdle == displayResult = NoDisplay

Display ==
  /\ UNCHANGED notDisplay
  /\ displayResult = NoDisplay
  /\ \E path \in UserPaths, begin \in Begins, end \in Ends, offsetP \in OffsetParams,
        lengthP \in LengthParams, mode \in Modes, compression \in Compressions,
        encoding \in DisplayEncodings :
       displayResult' =
         [path |-> path, begin |-> begin, end |-> end, offset |-> offsetP,
          length |-> lengthP, mode |-> mode, compression |-> compression,
          encoding |-> encoding,
          result |-> display(fsFiles, path, begin, end, offsetP, lengthP, mode,
                             compression, encoding)]

\* ---- One-shot filesystem operations (generic_op) ---------------------------

\* A parameter that is None.
NoParam == "(none)"

\* The views built on generic_op that act on files: the operation, its
\* parameter names in declared order, and the parameter whose stats are
\* looked up afterwards (NoParam for none).
OpViews ==
  {[name |-> "remove", parameter_names |-> <<"path">>, piggyback |-> NoParam],
   [name |-> "move", parameter_names |-> <<"src_path", "dest_path">>, piggyback |-> NoParam],
   [name |-> "chmod", parameter_names |-> <<"path", "mode">>, piggyback |-> "path"],
   [name |-> "chown", parameter_names |-> <<"path", "user", "group">>, piggyback |-> "path"]}

ParamNames == {"path", "src_path", "dest_path", "mode", "user", "group"}

\* What a request may carry for a parameter, as text split in pieces: nothing,
\* a path (also with a trailing slash), an octal mode or one that is not
\* octal, a user or group name.
NoValue == <<>>
RawValues(p) ==
  CASE p \in {"path", "src_path", "dest_path"} ->
         {NoValue, PathF, Append(PathF, "/"), PathG}
    [] p = "mode" -> {NoValue, <<"6", "4", "4">>, <<"7", "8">>}
    [] p \in {"user", "group"} -> {NoValue, <<"carol">>}

RECURSIVE FormsOver(_)
FormsOver(names) ==
  IF names = <<>> THEN {<<>>}
  ELSE {<<v>> \o rest : v \in RawValues(Head(names)), rest \in FormsOver(Tail(names))}

\* The value submitted for parameter names[i] is form[i].
ValueOf(names, form, p) ==
  form[CHOOSE i \in DOMAIN names : names[i] = p]

\* Cleaning of the form's fields: a path is normalised (its trailing slash
\* goes), a mode is read as an octal number, a name is kept.
OctalDigit(d) ==
  CASE d = "0" -> 0 [] d = "1" -> 1 [] d = "2" -> 2 [] d = "3" -> 3
    [] d = "4" -> 4 [] d = "5" -> 5 [] d = "6" -> 6 [] d = "7" -> 7
    [] OTHER -> -1

RECURSIVE OctalValue(_, _)
OctalValue(digits, acc) ==
  IF digits = <<>> THEN acc
  ELSE OctalValue(Tail(digits), acc * 8 + OctalDigit(Head(digits)))

CleanPath(v) ==
  IF Len(v) > 1 /\ v[Len(v)] = "/" THEN SubSeq(v, 1, Len(v) - 1) ELSE v

Clean(p, v) ==
  CASE p \in {"path", "src_path", "dest_path"} -> CleanPath(v)
    [] p = "mode" -> OctalValue(v, 0)
    [] p \in {"user", "group"} -> v[1]

\* form.is_valid(): every field is given, and a mode is octal.
FieldValid(p, v) ==
  /\ v # NoValue
  /\ p = "mode" => \A i \in DOMAIN v : OctalDigit(v[i]) >= 0

is_valid(names, form) == \A i \in DOMAIN names : FieldValid(names[i], form[i])

\* Arguments in which the first value also stands for the destination.
OpArgsSourceTwice(names, form) ==
  [i \in DOMAIN names |->
     IF names[i] = "dest_path" THEN Clean(names[1], form[1])
     ELSE Clean(names[i], form[i])]

\* Line 741: args = [form.cleaned_data[p] for p in parameter_names]
OpArgs(names, form) == [i \in DOMAIN names |-> Clean(names[i], form[i])]

\* op(*args) on the filesystem: whether it succeeds (it raises IOError when
\* it does not) and the files afterwards.
OpApply(files, name, args, fails) ==
  LET done(ok, after) == [ok |-> ok, files |-> IF ok THEN after ELSE files]
  IN  CASE name = "remove" ->
             done(~fails /\ files[args[1]].exists, FsRemove(files, args[1]))
        [] name = "move" ->
             done(~fails /\ files[args[1]].exists /\ ~files[args[2]].exists,
                  FsRename(files, args[1], args[2]))
        [] name = "chmod" ->
             done(~fails /\ files[args[1]].exists, FsChmod(files, args[1], args[2]))
        [] name = "chown" ->
             done(~fails /\ files[args[1]].exists,
                  FsChown(files, args[1], args[2], args[3]))

\* _massage_stats(request, request.fs.stats(path)) of a file.
massage_file_stats(path, file) ==
  [path |-> path, stats |-> file, type |-> "file", mode |-> S_IMODE(file.mode)]

\* A re-fetch whose failure goes unflagged.
PiggybackUnflagged(files, view, form, fails) ==
  IF view.piggyback = NoParam THEN [result |-> <<>>, result_error |-> FALSE]
  ELSE LET piggy_path == Clean(view.piggyback,
                               ValueOf(view.parameter_names, form, view.piggyback))
       IN  IF fails \/ ~files[piggy_path].exists
             THEN [result |-> <<>>, result_error |-> FALSE]
             ELSE [result |-> <<massage_file_stats(piggy_path, files[piggy_path])>>,
                   result_error |-> FALSE]

\* Lines 753-762: the stats looked up after the operation; a failure is
\* logged and flagged.
Piggyback(files, view, form, fails) ==
  IF view.piggyback = NoParam THEN [result |-> <<>>, result_error |-> FALSE]
  ELSE LET piggy_path == Clean(view.piggyback,
                               ValueOf(view.parameter_names, form, view.piggyback))
       IN  IF fails \/ ~files[piggy_path].exists
             THEN [result |-> <<>>, result_error |-> TRUE]
             ELSE [result |-> <<massage_file_stats(piggy_path, files[piggy_path])>>,
                   result_error |-> FALSE]

\* The 'next' parameter: absent, empty, or a target.
Nexts == {NoParam, "", "/filebrowser/view/"}

\* Who asks: a Hue admin who is the filesystem's superuser, one who is not,
\* an ordinary user.
OpUsers ==
  {[username |-> "hdfs", is_superuser |-> TRUE],
   [username |-> "admin", is_superuser |-> TRUE],
   [username |-> "bob", is_superuser |-> FALSE]}

FsSuperuser == "hdfs"

\* request.user == request.fs.superuser (line 752): a user object compared
\* with a name, which are never equal.
UserIsName(user, name) == FALSE

\* What generic_op answers: a rendered template with its context, a redirect
\* or a PopupException; `invoked` lists the calls of op with their arguments;
\* `files` are the files afterwards.
OpAnswer(kind, form, success, piggy, note, invoked, files) ==
  [kind |-> kind, form |-> form, success |-> success, result |-> piggy.result,
   result_error |-> piggy.result_error, note |-> note, invoked |-> invoked,
   files |-> files]

NoPiggy == [result |-> <<>>, result_error |-> FALSE]

\* generic_op(form_class, request, op, parameter_names, piggyback)
generic_op(files, view, user, method, next, form, opFails, piggyFails) ==
  LET names == view.parameter_names
      args  == OpArgs(names, form)
      done  == OpApply(files, view.name, args, opFails)
      call  == <<[op |-> view.name, args |-> args]>>
  IN  IF method # "POST"
        THEN OpAnswer("render", "initial", FALSE, NoPiggy, FALSE, <<>>, files)
      ELSE IF ~is_valid(names, form)
        THEN OpAnswer("render", "errors", FALSE, NoPiggy, FALSE, <<>>, files)
      ELSE IF ~done.ok
        THEN OpAnswer("popup", "bound", FALSE, NoPiggy,
                      user.is_superuser /\ ~UserIsName(user, FsSuperuser), call, files)
      ELSE IF next # NoParam /\ next # ""
        THEN OpAnswer("redirect", "bound", FALSE, NoPiggy, FALSE, call, done.files)
      ELSE OpAnswer("render", "bound", TRUE,
                    Piggyback(done.files, view, form, piggyFails), FALSE, call,
                    done.files)

NoOp ==
  [view |-> "none", method |-> "GET", next |-> NoParam, form |-> <<>>,
   before |-> [p \in Paths |-> NoFile], opFails |-> FALSE, piggyFails |-> FALSE,
   response |-> OpAnswer("none", "none", FALSE, NoPiggy, FALSE, <<>>,
                         [p \in Paths |-> NoFile])]

OpIdle == opResult = NoOp

GenericOp ==
  /\ UNCHANGED notOp
  /\ UNCHANGED <<savers, faulty, pc, req, local, calls, raised, renamed, readResult>>
  /\ opResult = NoOp
  /\ \E view \in OpViews, user \in OpUsers, method \in {"GET", "POST"}, next \in Nexts,
        opFails \in BOOLEAN, piggyFails \in BOOLEAN :
       \E form \in FormsOver(view.parameter_names) :
         LET answer == generic_op(fsFiles, view, user, method, next, form, opFails,
                                  piggyFails)
         IN  /\ opResult' = [view |-> view.name, method |-> method, next |-> next,
                             form |-> form, before |-> fsFiles, opFails |-> opFails,
                             piggyFails |-> piggyFails, response |-> answer]
             /\ fsFiles' = answer.files

\* ---- Upload ------------------------------------------------------------------

\* The temporary file the upload handler wrote, the directory and the file
\* path a form may name as destination, and the name of the uploaded file.
TmpPath == <<"/tmp", "/hue-upload">>
DestDir == <<"/u">>
DestFile == <<"/u", "/new.bin">>
UploadedName == "/up.bin"
UploadPaths == {TmpPath, DestFile, Append(DestDir, UploadedName)}
UploadDests == {DestDir, DestFile}

\* The temporary file as the superuser created it, and a file already at a
\* destination.
TmpFile == File(<<85>>, 384, FsSuperuser, "supergroup")
OldUpload == File(<<79>>, 420, "bob", "users")

\* Who uploads: an ordinary user, or the filesystem's superuser themself.
Uploaders == {"bob", FsSuperuser}

\* Which filesystem call of the request raises, if any, and what: an IOError
\* or another exception.
UploadFailing == {"none", "chmod", "chown", "rename", "stats"}
FailureKinds == {"ioerror", "other"}

\* A call of the filesystem client, with the active user it ran as.
UCall(op, arg, as, ok) == [op |-> op, arg |-> arg, as |-> as, ok |-> ok]

\* The section's outcome: "" when chmod and chown went through, else what is
\* raised; the calls; the files and the active user afterwards.
Section(why, cs, files, active) ==
  [why |-> why, calls |-> cs, files |-> files, active |-> active]

\* A section that leaves the superuser active when chmod or chown fails.
ChownSectionNoFinally(files, username, failing, kind) ==
  LET su      == FsSuperuser
      set1    == UCall("setuser", su, username, TRUE)
      chmodOk == failing # "chmod" /\ files[TmpPath].exists
      chmod   == UCall("chmod", TmpPath, su, chmodOk)
      f1      == IF chmodOk THEN FsChmod(files, TmpPath, 420) ELSE files
      chownOk == failing # "chown" /\ files[TmpPath].exists
      chown   == UCall("chown", TmpPath, su, chownOk)
      f2      == IF chownOk THEN FsChown(f1, TmpPath, username, username) ELSE f1
      set2    == UCall("setuser", username, su, TRUE)
      raises  == IF failing \in {"chmod", "chown"} /\ kind = "other"
                   THEN "error" ELSE "popup"
  IN  IF ~chmodOk THEN Section(raises, <<set1, chmod>>, files, su)
      ELSE IF ~chownOk THEN Section(raises, <<set1, chmod, chown>>, f1, su)
      ELSE Section("", <<set1, chmod, chown, set2>>, f2, username)

\* Lines 893-906: as the superuser, chmod and chown of the temporary file;
\* an IOError becomes a PopupException, another exception goes through; the
\* finally clause makes the requesting user active again.
ChownSection(files, username, failing, kind) ==
  LET su      == FsSuperuser
      set1    == UCall("setuser", su, username, TRUE)
      chmodOk == failing # "chmod" /\ files[TmpPath].exists
      chmod   == UCall("chmod", TmpPath, su, chmodOk)
      f1      == IF chmodOk THEN FsChmod(files, TmpPath, 420) ELSE files
      chownOk == failing # "chown" /\ files[TmpPath].exists
      chown   == UCall("chown", TmpPath, su, chownOk)
      f2      == IF chownOk THEN FsChown(f1, TmpPath, username, username) ELSE f1
      set2    == UCall("setuser", username, su, TRUE)
      raises  == IF failing \in {"chmod", "chown"} /\ kind = "other"
                   THEN "error" ELSE "popup"
  IN  IF ~chmodOk THEN Section(raises, <<set1, chmod, set2>>, files, username)
      ELSE IF ~chownOk THEN Section(raises, <<set1, chmod, chown, set2>>, f1, username)
      ELSE Section("", <<set1, chmod, chown, set2>>, f2, username)

\* What an upload request gave: the template rendered or the exception, the
\* destination, the stats shown, the calls, the files and the active user
\* afterwards.
Uploaded(ret, why, dest, result, cs, files, active) ==
  [ret |-> ret, why |-> why, dest |-> dest, result |-> result, calls |-> cs,
   files |-> files, active |-> active]

\* _upload(request), the client's active user being `active` on entry.
do_upload(files, active, username, method, valid, dest0, failing, kind) ==
  LET isdir    == UCall("isdir", dest0, active, TRUE)
      dest     == IF dest0 = DestDir THEN Append(dest0, UploadedName) ELSE dest0
      sec      == ChownSection(files, username, failing, kind)
      renameOk == /\ failing # "rename"
                  /\ sec.files[TmpPath].exists
                  /\ ~sec.files[dest].exists
      rename   == UCall("rename", dest, sec.active, renameOk)
      moved    == FsRename(sec.files, TmpPath, dest)
      statsOk  == failing # "stats"
      stats    == UCall("stats", dest, sec.active, statsOk)
      upTo(cs) == <<isdir>> \o sec.calls \o cs
  IN  IF method # "POST"
        THEN Uploaded("render", "upload", <<>>, <<>>, <<>>, files, active)
      ELSE IF ~valid
        THEN Uploaded("render", "upload", <<>>, <<>>, <<>>, files, active)
      ELSE IF sec.why # ""
        THEN Uploaded(sec.why, "chown_failed", dest, <<>>, upTo(<<>>), sec.files,
                      sec.active)
      ELSE IF ~renameOk
        THEN Uploaded(IF failing = "rename" /\ kind = "other" THEN "error" ELSE "popup",
                      "rename_failed", dest, <<>>, upTo(<<rename>>), sec.files,
                      sec.active)
      ELSE IF ~statsOk
        THEN Uploaded("error", "stats_failed", dest, <<>>, upTo(<<rename, stats>>),
                      moved, sec.active)
      ELSE Uploaded("render", "upload_done", dest,
                    <<massage_file_stats(dest, moved[dest])>>,
                    upTo(<<rename, stats>>), moved, sec.active)

\* upload(request): _upload, and on a POST that carries the file the removal
\* of the temporary file whatever _upload did.
upload(files, active, username, method, valid, hasFile, dest0, failing, kind) ==
  LET r      == do_upload(files, active, username, method, valid, dest0, failing, kind)
      remove == UCall("upload_file.remove", TmpPath, r.active, r.files[TmpPath].exists)
  IN  IF method = "POST" /\ hasFile
        THEN [r EXCEPT !.calls = Append(@, remove),
                       !.files = FsRemove(@, TmpPath)]
        ELSE r

NoUpload ==
  [username |-> "", method |-> "GET", valid |-> FALSE, dest |-> <<>>,
   failing |-> "none", kind |-> "ioerror", before |-> [p \in UploadPaths |-> NoFile],
   response |-> Uploaded("none", "", <<>>, <<>>, <<>>, [p \in UploadPaths |-> NoFile], "")]

UploadIdle ==
  /\ uploadResult = NoUpload
  /\ uploadFs = [p \in UploadPaths |-> NoFile]
  /\ fsUser = ""

\* An upload request; the client's active user is the requesting user when
\* the view is entered.
Upload ==
  /\ UNCHANGED notUpload
  /\ uploadResult = NoUpload
  /\ fsUser # ""
  /\ \E method \in {"GET", "POST"}, valid \in BOOLEAN, hasFile \in BOOLEAN,
        dest \in UploadDests, failing \in UploadFailing, kind \in FailureKinds :
       /\ valid => hasFile
       /\ LET r == upload(uploadFs, fsUser, fsUser, method, valid, hasFile, dest,
                          failing, kind)
          IN  /\ uploadResult' = [username |-> fsUser, method |-> method,
                                  valid |-> valid, dest |-> dest, failing |-> failing,
                                  kind |-> kind, before |-> uploadFs, response |-> r]
              /\ uploadFs' = r.files
              /\ fsUser' = r.active

\* ---- Specifications -------------------------------------------------------

\* The files before the first request: /f.txt absent or a text file of
\* another user, /g.gz a gzip stream or not one, /h.avro an Avro container
\* of two records; a staging file may be left from an earlier save.
FileF == File(<<66, 67, 68>>, 384, "bob", "staff")
FileG == File(GzipMagic \o <<2, 65>>, 420, "alice", "users")
FileH == File(AvroMagic \o <<1, 72, 2, 73, 74>>, 420, "alice", "users")
Leftover == File(<<90>>, 420, "alice", "users")

FilesOf(f, g, l) ==
  [p \in Paths |->
     CASE p = PathF -> f
       [] p = PathG -> g
       [] p = PathH -> FileH
       [] p = path_dest(PathF) -> l
       [] OTHER -> NoFile]

InitialFiles ==
  {FilesOf(f, g, l) : f \in {NoFile, FileF},
                      g \in {FileG, File(<<31, 66>>, 420, "alice", "users")},
                      l \in {NoFile, Leftover}}

Savers == {1, 2}

FsInitWith(files, active, mayFail) ==
  /\ fsFiles \in files
  /\ savers = active
  /\ faulty = mayFail
  /\ pc = [p \in Savers |-> "idle"]
  /\ req = [p \in Savers |-> NoReq]
  /\ local = [p \in Savers |-> NoLocal]
  /\ calls = [p \in Savers |-> <<>>]
  /\ raised = [p \in Savers |-> NoError]
  /\ renamed = 0
  /\ readResult = NoRead

\* The file browser before any request, when another component is checked.
FsIdle == FsInitWith({FilesOf(NoFile, FileG, NoFile)}, {}, FALSE)

\* The bytes a failing write may have got through.
PartialLens(p, fail) ==
  IF fail THEN 0..Max(0, Len(Encode(req[p].data, req[p].encoding)) - 1) ELSE {0}

SaveFile ==
  /\ UNCHANGED notFs
  /\ \E p \in savers, path \in SavePaths, data \in Texts, e \in Encodings :
       save_file(p, path, data, e)
DoOverwriteOpen ==
  /\ UNCHANGED notFs
  /\ \E p \in savers, f \in Faults : OverwriteOpen(p, f)
DoOverwriteWrite ==
  /\ UNCHANGED notFs
  /\ \E p \in savers, f \in Faults : \E k \in PartialLens(p, f) : OverwriteWrite(p, f, k)
DoOverwriteClose ==
  /\ UNCHANGED notFs
  /\ \E p \in savers, f \in Faults : OverwriteClose(p, f)
DoOverwriteCleanup ==
  /\ UNCHANGED notFs
  /\ \E p \in savers, f \in Faults : OverwriteCleanup(p, f)
DoOverwriteStats ==
  /\ UNCHANGED notFs
  /\ \E p \in savers, f \in Faults : OverwriteStats(p, f)
DoOverwriteChmod ==
  /\ UNCHANGED notFs
  /\ \E p \in savers, f \in Faults : OverwriteChmod(p, f)
DoOverwriteChown ==
  /\ UNCHANGED notFs
  /\ \E p \in savers, f \in Faults : OverwriteChown(p, f)
DoOverwriteRemove ==
  /\ UNCHANGED notFs
  /\ \E p \in savers, f \in Faults : OverwriteRemove(p, f)
DoOverwriteRename ==
  /\ UNCHANGED notFs
  /\ \E p \in savers, f \in Faults : OverwriteRename(p, f)
DoNewfileOpen ==
  /\ UNCHANGED notFs
  /\ \E p \in savers, f \in Faults : NewfileOpen(p, f)
DoNewfileWrite ==
  /\ UNCHANGED notFs
  /\ \E p \in savers, f \in Faults : \E k \in PartialLens(p, f) : NewfileWrite(p, f, k)
DoNewfileClose ==
  /\ UNCHANGED notFs
  /\ \E p \in savers, f \in Faults : NewfileClose(p, f)
DoReadContents ==
  /\ UNCHANGED notFs
  /\ \E c \in Codecs, path \in UserPaths, o \in 0..MaxOffset, n \in 0..MaxLength,
        f \in ReadFaults :
       ReadContents(c, path, o, n, f)

SaveNext ==
  \/ SaveFile
  \/ DoOverwriteOpen
  \/ DoOverwriteWrite
  \/ DoOverwriteClose
  \/ DoOverwriteCleanup
  \/ DoOverwriteStats
  \/ DoOverwriteChmod
  \/ DoOverwriteChown
  \/ DoOverwriteRemove
  \/ DoOverwriteRename
  \/ DoNewfileOpen
  \/ DoNewfileWrite
  \/ DoNewfileClose

\* One save_file request; filesystem calls may fail.
Init == OozieIdle /\ ListIdle /\ DisplayIdle /\ OpIdle /\ UploadIdle /\ FsInitWith(InitialFiles, {1}, TRUE)
Next == SaveNext
Spec == Init /\ [][Next]_vars

\* Two save_file requests at once; a call fails only when the files are not
\* as it needs them.
InitConc == OozieIdle /\ ListIdle /\ DisplayIdle /\ OpIdle /\ UploadIdle /\ FsInitWith(InitialFiles, {1, 2}, FALSE)
SpecConc == InitConc /\ [][SaveNext]_vars

\* read_contents calls on the files; filesystem calls may fail.
\* An Avro container that starts one byte into its file, with three records,
\* the second one empty.
FileHLate == File(<<9>> \o AvroMagic \o <<1, 72, 0, 1, 73>>, 420, "alice", "users")

\* The files read also include a gzip stream under a name without the '.gz'
\* suffix, a '.avro' file that is no Avro container, one whose container
\* starts late and one whose container holds no record.
ReadFiles ==
  InitialFiles
    \cup {[FilesOf(FileF, FileG, NoFile) EXCEPT ![PathF] = FileG],
          [FilesOf(FileF, FileG, NoFile) EXCEPT
             ![PathH] = File(<<79, 98, 66, 1>>, 420, "alice", "users")],
          [FilesOf(FileF, FileG, NoFile) EXCEPT ![PathH] = FileHLate],
          [FilesOf(FileF, FileG, NoFile) EXCEPT
             ![PathH] = File(AvroMagic, 420, "alice", "users")]}

InitRead == OozieIdle /\ ListIdle /\ DisplayIdle /\ OpIdle /\ UploadIdle /\ FsInitWith(ReadFiles, {}, TRUE)
SpecRead == InitRead /\ [][DoReadContents]_vars

\* The dashboard.
InitOozie == OozieInit /\ ListIdle /\ DisplayIdle /\ OpIdle /\ UploadIdle /\ FsIdle
SpecOozie == InitOozie /\ [][OozieNext]_vars

\* One directory listing request.
InitList == OozieIdle /\ FsIdle /\ ListIdle /\ DisplayIdle /\ OpIdle /\ UploadIdle
SpecList == InitList /\ [][ListNext]_vars

\* One display request, of a 20-byte text file, a gzip stream or an Avro
\* container, or of a path that names no file.
File20 == File([i \in 1..20 |-> 64 + i], 420, "alice", "users")
DisplayFiles ==
  {[FilesOf(NoFile, FileG, NoFile) EXCEPT ![PathF] = File20],
   FilesOf(NoFile, FileG, NoFile),
   [FilesOf(NoFile, FileG, NoFile) EXCEPT ![PathF] = File(<<65, 233>>, 420, "alice", "users")]}
InitDisplay == OozieIdle /\ ListIdle /\ DisplayIdle /\ OpIdle /\ UploadIdle /\ FsInitWith(DisplayFiles, {}, FALSE)
SpecDisplay == InitDisplay /\ [][Display]_vars

\* One generic_op request.
InitOp == OozieIdle /\ ListIdle /\ DisplayIdle /\ OpIdle /\ UploadIdle /\ FsInitWith(InitialFiles, {}, FALSE)
SpecOp == InitOp /\ [][GenericOp]_vars

\* One upload request: the temporary file is written, a destination may be
\* taken already, and the client acts for the requesting user.
InitUpload ==
  /\ OozieIdle /\ ListIdle /\ DisplayIdle /\ OpIdle /\ FsIdle
  /\ uploadResult = NoUpload
  /\ fsUser \in Uploaders
  /\ uploadFs \in {[p \in UploadPaths |->
                      IF p = TmpPath THEN t ELSE IF p = DestFile THEN d ELSE NoFile] :
                    t \in {TmpFile, NoFile}, d \in {NoFile, OldUpload}}
SpecUpload == InitUpload /\ [][Upload]_vars

(***************************************************************************)
(* Claims about the editor's save (checked under Spec and SpecConc) and    *)
(* about read_contents (checked under SpecRead)                            *)
(***************************************************************************)

\* The positions, in a saver's calls, of the calls of one kind on one path.
CallsOf(p, op, path) ==
  {i \in 1..Len(calls[p]) : calls[p][i].op = op /\ calls[p][i].path = path}
FailedCallsOf(p, op, path) == {i \in CallsOf(p, op, path) : ~calls[p][i].ok}

\* The write or the close of the staging file failed.
StagingWriteFailed(p) ==
  /\ req[p].overwrite
  /\ FailedCallsOf(p, "write", path_dest(req[p].path))
       \cup FailedCallsOf(p, "close", path_dest(req[p].path)) # {}

\* C1: in an overwrite save, once the write or the close of the staging file
\* <path>._hue_new has failed, the original file at <path> exists with
\* exactly the content (and the mode and owner) it had before the save,
\* neither fs.remove(path) nor fs.rename is ever called, and the save ends by
\* raising the error of the write or close (the close's when both failed),
\* also when the removal of the staging file fails in its turn.
C1_FailedStagingWriteKeepsOriginal ==
  \A p \in savers :
    StagingWriteFailed(p) =>
      LET path == req[p].path
          dest == path_dest(path)
      IN  /\ fsFiles[path].exists
          /\ fsFiles[path] = req[p].before
          /\ CallsOf(p, "remove", path) = {}
          /\ CallsOf(p, "rename", dest) = {}
          /\ pc[p] \in {"ow_close", "ow_cleanup", "done"}
          /\ pc[p] = "done" =>
               raised[p] = IF FailedCallsOf(p, "close", dest) # {} THEN "close"
                                                                   ELSE "write"

\* C1 witness: a save of /f.txt whose staging write failed, whose close
\* succeeded and whose removal of the staging file failed too, ended.
C1_Witness ==
  /\ pc[1] = "done"
  /\ req[1].path = PathF
  /\ FailedCallsOf(1, "write", path_dest(PathF)) # {}
  /\ FailedCallsOf(1, "close", path_dest(PathF)) = {}
  /\ FailedCallsOf(1, "remove", path_dest(PathF)) # {}
  /\ raised[1] = "write"
  /\ fsFiles[PathF] = FileF

\* C2: when an overwrite save has completed without error, reading the path
\* back with codec 'none', offset 0 and any length >= the content size returns
\* exactly the saved text encoded with the save's encoding, and the staging
\* path <path>._hue_new no longer exists.
C2_OverwriteSaveRoundTrip ==
  \A p \in savers :
    (pc[p] = "done" /\ raised[p] = NoError /\ req[p].overwrite) =>
      LET path  == req[p].path
          bytes == Encode(req[p].data, req[p].encoding)
      IN  /\ ~fsFiles[path_dest(path)].exists
          /\ \A n \in Len(bytes)..Max(Len(bytes), MaxLength) :
               LET r == read_contents(fsFiles, "none", path, 0, n, "none")
               IN  /\ r.ret = "ok"
                   /\ r.contents = bytes
                   /\ r.codec = "none" /\ r.offset = 0 /\ r.length = n

\* C2 witness: /f.txt, over whose staging name an earlier save had left a
\* file, overwritten with e-acute in UTF-8.
C2_Witness ==
  /\ pc[1] = "done" /\ raised[1] = NoError
  /\ req[1].overwrite /\ req[1].path = PathF
  /\ req[1].data = <<233>> /\ req[1].encoding = "utf-8"
  /\ fsFiles[PathF].data = <<195, 169>>
  /\ calls[1][Len(calls[1])] = Call("rename", path_dest(PathF), 0, TRUE)

\* Both savers ran an overwrite save of the same path and both have ended.
TwoOverwritesEnded ==
  /\ savers = {1, 2}
  /\ pc[1] = "done" /\ pc[2] = "done"
  /\ req[1].overwrite /\ req[2].overwrite
  /\ req[1].path = req[2].path
  /\ CanEncode(req[1].data, req[1].encoding)
  /\ CanEncode(req[2].data, req[2].encoding)

C9_ReadNoneReturnsWindow ==
  LET r    == readResult.result
      data == fsFiles[readResult.path].data
      \* (a path that names no file makes fs.open raise)
  IN  (readResult.codec_type = "none" /\ readResult.fault = "none"
         /\ fsFiles[readResult.path].exists) =>
        /\ r.ret = "ok"
        /\ Len(r.contents) = Min(readResult.length,
                                 Max(0, Len(data) - readResult.offset))
        /\ \A i \in 1..Len(r.contents) : r.contents[i] = data[readResult.offset + i]
        /\ r.codec = "none"
        /\ r.offset = readResult.offset
        /\ r.length = readResult.length

\* C9 witness: /f.txt (3 bytes) read from offset 2 with length 3: one byte.
C9_Witness ==
  /\ readResult.codec_type = "none" /\ readResult.fault = "none"
  /\ readResult.path = PathF /\ fsFiles[PathF] = FileF
  /\ readResult.offset = 2 /\ readResult.length = 3
  /\ readResult.result.contents = <<68>>

\* C10 as stated: a read with codec 'gzip' and a nonzero offset is rejected
\* as an invalid request before the file is opened (no filesystem call
\* failing).
C10_GzipOffsetRejectedBeforeOpen ==
  LET r == readResult.result IN
  (readResult.codec_type = "gzip" /\ readResult.offset # 0
     /\ readResult.fault = "none") =>
    /\ r.ret = "popup" /\ r.why = "gzip_offset"
    /\ \A i \in 1..Len(r.calls) : r.calls[i].op # "open"

\* ---- Codec resolution -----------------------------------------------------

\* The first bytes of the file read.
FirstBytes(n) == Take(fsFiles[readResult.path].data, n)

\* C11: a codec given by the caller is handed back unchanged, with the offset
\* as passed, and the first handle opened is not read (no magic bytes are
\* inspected); with the codec unset the call settles on 'gzip' and offset 0
\* exactly when the path ends in '.gz' and the file starts with 0x1F 0x8B,
\* else on 'avro' exactly when the path ends in '.avro' and the file starts
\* with 'Obj', else on 'none', the offset kept in the last two cases (the
\* file existing and the opens before the reader not failing).
C11_CodecResolution ==
  LET r      == readResult.result
      isGzip == EndsWith(readResult.path, ".gz") /\ FirstBytes(2) = <<31, 139>>
      isAvro == EndsWith(readResult.path, ".avro") /\ FirstBytes(3) = <<79, 98, 106>>
  IN  (r.ret # "none" /\ fsFiles[readResult.path].exists
         /\ readResult.fault \notin {"probe", "open"}) =>
        /\ readResult.codec_type # Unset =>
             /\ r.codec = readResult.codec_type
             /\ r.offset = readResult.offset
             /\ Len(r.calls) >= 2 => r.calls[2].op # "read"
        /\ readResult.codec_type = Unset =>
             /\ r.codec = IF isGzip THEN "gzip" ELSE IF isAvro THEN "avro" ELSE "none"
             /\ r.offset = IF isGzip THEN 0 ELSE readResult.offset

\* A '.gz' path whose file lacks the gzip magic, read with the codec unset
\* from offset 2: the codec is 'none' and the offset is kept.
C11_Witness ==
  /\ readResult.codec_type = Unset
  /\ readResult.path = PathG
  /\ fsFiles[PathG].data = <<31, 66>>
  /\ readResult.offset = 2
  /\ readResult.result.ret = "ok"
  /\ readResult.result.codec = "none"
  /\ readResult.result.offset = 2
  /\ readResult.result.calls[2].op = "read"

\* ---- Directory listing: properties ---------------------------------------

\* The positions of the synthetic parent entry among display records, and
\* among stat records, of the listing served.
ParentsShown ==
  {i \in DOMAIN listResult.files :
     listResult.files[i].stats.path = JoinParent(listResult.path)}

ParentsListed ==
  {i \in DOMAIN listResult.listed :
     listResult.listed[i].path = JoinParent(listResult.path)}

AtRoot == normpath(listResult.path) = RootPath

\* C7 as stated: every rendered listing holds no synthetic parent entry at
\* the root, and exactly one for every other directory, whatever the filter,
\* the sort key, the direction and the page.
C7_ExactlyOneParentEntry ==
  listResult.ret = "render" =>
    Cardinality(ParentsShown) = IF AtRoot THEN 0 ELSE 1

\* C7, amended: a rendered listing holds no synthetic parent entry at the
\* root and at most one elsewhere. Away from the root, listdir shows exactly
\* one, at the head; listdir_paged keeps exactly one in the listing it
\* paginates when there is no filter or when ".." contains the filter, and
\* none otherwise, and the page shows it exactly when its position falls
\* inside the page.
C7_ParentEntryAtMostOne ==
  listResult.ret = "render" =>
    /\ AtRoot => ParentsShown = {} /\ ParentsListed = {}
    /\ ~AtRoot /\ listResult.view = "listdir" => ParentsShown = {1}
    /\ ~AtRoot /\ listResult.view = "listdir_paged" =>
         /\ Cardinality(ParentsListed) =
              IF listResult.filter = <<>> \/ Contains(DotDot, listResult.filter)
                THEN 1 ELSE 0
         /\ Cardinality(ParentsShown) <= 1
         /\ ParentsShown # {} <=>
              \E i \in ParentsListed :
                /\ i > (listResult.pagenum - 1) * listResult.pagesize
                /\ i <= listResult.pagenum * listResult.pagesize

\* A filtered, sorted listing away from the root whose page shows the parent
\* entry beside another entry.
C7_Witness ==
  /\ listResult.view = "listdir_paged"
  /\ listResult.ret = "render"
  /\ ~AtRoot
  /\ listResult.filter = <<46>>
  /\ listResult.sortby = "size"
  /\ ParentsShown # {}
  /\ Len(listResult.files) = 2

\* The position of a stat record in the list before the filter and the sort
\* (the parent's record included).
InputPosition(st) ==
  CHOOSE i \in DOMAIN listResult.client_list : listResult.client_list[i] = st

KeptByFilter ==
  {listResult.client_list[i] : i \in
     {j \in DOMAIN listResult.client_list :
        listResult.filter = <<>>
          \/ Contains(listResult.client_list[j].name, listResult.filter)}}

\* C8: in listdir_paged the listing that is paginated holds exactly the
\* entries the filter keeps (the parent entry among them); for an accepted
\* sort key it is ordered by that attribute, ascending or descending per the
\* flag, entries of equal key in their input order; for any other key, or
\* none, it is in input order.
C8_SortStableAndDirected ==
  listResult.view = "listdir_paged" /\ listResult.ret = "render" =>
    LET listed == listResult.listed
        key(i) == Attr(listed[i], listResult.sortby)
    IN  /\ {listed[i] : i \in DOMAIN listed} = KeptByFilter
        /\ Len(listed) = Cardinality(KeptByFilter)
        /\ \A i, j \in DOMAIN listed :
             i < j =>
               IF listResult.sortby \in SortKeys
                 THEN /\ listResult.descending => ~Less(key(i), key(j))
                      /\ ~listResult.descending => ~Less(key(j), key(i))
                      /\ key(i) = key(j) =>
                           InputPosition(listed[i]) < InputPosition(listed[j])
                 ELSE InputPosition(listed[i]) < InputPosition(listed[j])

\* A descending sort that moved entries and kept two entries of equal key,
\* the parent entry among the sorted.
C8_Witness ==
  /\ listResult.view = "listdir_paged"
  /\ listResult.ret = "render"
  /\ listResult.sortby = "size"
  /\ listResult.descending
  /\ ParentsListed # {}
  /\ Len(listResult.listed) = 4
  /\ \E i, j \in DOMAIN listResult.listed :
       /\ i < j
       /\ listResult.listed[i].size = listResult.listed[j].size
  /\ listResult.listed # listResult.client_list


\* ---- Display: properties ---------------------------------------------------

\* The display request served gave both begin and end, positions counted
\* from 1.
BeginEndGiven ==
  /\ displayResult.result.ret # "none"
  /\ displayResult.begin # Absent /\ displayResult.begin[1] >= 1
  /\ displayResult.end # Absent /\ displayResult.end[1] >= 1

\* C12 as stated: a begin/end request reads from offset begin - 1 with length
\* end - begin, so that begin=1, end=11 on a 20-byte file reads offset 0,
\* length 10, and shows the first 10 bytes.
C12_BeginEndMapping ==
  (BeginEndGiven /\ displayResult.result.reads # <<>>) =>
    /\ displayResult.result.reads[1].offset = displayResult.begin[1] - 1
    /\ displayResult.result.reads[1].length =
         displayResult.end[1] - displayResult.begin[1]
    /\ (/\ displayResult.begin = Given(1) /\ displayResult.end = Given(11)
        /\ fsFiles[displayResult.path] = File20
        /\ displayResult.result.ret = "render") =>
         displayResult.result.view.contents = Take(File20.data, 10)

\* C13 as stated: a begin/end request whose begin is greater than or equal to
\* its end is rejected as invalid and reads nothing of the file.
C13_BeginNotBeforeEndRejected ==
  (/\ BeginEndGiven
   /\ fsFiles[displayResult.path].exists
   /\ displayResult.begin[1] >= displayResult.end[1]) =>
    /\ displayResult.result.ret = "popup"
    /\ displayResult.result.why = "range"
    /\ displayResult.result.reads = <<>>

\* C14: display calls read_contents only with offset >= 0 and a length from
\* 0 to 1 MiB, and only with the mode unset, 'binary' or 'text'; a request of
\* an existing file whose offset parameter (or begin - 1) is negative, whose
\* length parameter is negative or above 1 MiB, or whose mode is another
\* one, is rejected and reads nothing.
C14_ReaderCalledInRange ==
  LET d == displayResult
      r == d.result
  IN  /\ r.reads # <<>> =>
           /\ r.reads[1].offset >= 0
           /\ r.reads[1].length >= 0
           /\ r.reads[1].length <= 1048576
           /\ d.mode \in {Unset, "binary", "text"}
      /\ (/\ r.ret # "none"
          /\ \/ d.mode \notin {Unset, "binary", "text"}
             \/ Ranged(d.end) /\ d.begin # Absent /\ d.begin[1] - 1 < 0
             \/ ~Ranged(d.end) /\ d.offset # Absent /\ d.offset[1] < 0
             \/ ~Ranged(d.end) /\ d.length # Absent
                  /\ (d.length[1] < 0 \/ d.length[1] > 1048576)) =>
           /\ r.ret = "popup"
           /\ r.reads = <<>>

\* A request for 1 MiB + 1 bytes of an existing file, turned down for its
\* length, nothing read.
C14_Witness ==
  /\ displayResult.length = Given(1048577)
  /\ displayResult.end = Absent
  /\ fsFiles[displayResult.path].exists
  /\ displayResult.result.ret = "popup"
  /\ displayResult.result.why = "length_max"
  /\ displayResult.result.reads = <<>>


\* ---- generic_op: properties ------------------------------------------------

\* The path a submitted path value names.
NamedPath(v) == IF v \in {PathF, Append(PathF, "/")} THEN PathF ELSE PathG

\* The request served was a submit whose every field is given and whose
\* mode, if any, is octal.
ValidSubmit ==
  /\ opResult.method = "POST"
  /\ \A i \in DOMAIN opResult.form :
       opResult.form[i] # <<>> /\ opResult.form[i] # <<"7", "8">>

\* The arguments the operation is due for the form submitted.
DueArgs ==
  LET f == opResult.form IN
  CASE opResult.view = "remove" -> <<NamedPath(f[1])>>
    [] opResult.view = "move"   -> <<NamedPath(f[1]), NamedPath(f[2])>>
    [] opResult.view = "chmod"  -> <<NamedPath(f[1]), 420>>
    [] opResult.view = "chown"  -> <<NamedPath(f[1]), "carol", "carol">>

\* C15: generic_op invokes the operation only for a submit whose form is
\* valid, then exactly once, with the cleaned values of the declared
\* parameters in declared order; a read request and an invalid submit invoke
\* nothing, change no file and render the form.
C15_OpOnlyOnValidSubmit ==
  LET r == opResult.response IN
  opResult.view # "none" =>
    /\ Len(r.invoked) <= 1
    /\ r.invoked # <<>> <=> ValidSubmit
    /\ r.invoked # <<>> =>
         /\ r.invoked[1].op = opResult.view
         /\ r.invoked[1].args = DueArgs
    /\ r.invoked = <<>> =>
         /\ r.kind = "render"
         /\ r.form = IF opResult.method = "POST" THEN "errors" ELSE "initial"
         /\ ~r.success
         /\ fsFiles = opResult.before

\* A move submitted with a trailing slash on its destination: the operation
\* got the source first and the cleaned destination second, and moved the
\* file.
C15_Witness ==
  /\ opResult.view = "move"
  /\ opResult.method = "POST"
  /\ opResult.form = <<PathG, Append(PathF, "/")>>
  /\ opResult.response.invoked = <<[op |-> "move", args |-> <<PathG, PathF>>]>>
  /\ opResult.response.kind = "render"
  /\ ~opResult.before[PathF].exists
  /\ fsFiles[PathF] = opResult.before[PathG]
  /\ ~fsFiles[PathG].exists

\* The operation was invoked and did not raise, and no redirect target came
\* with the request.
OpSucceededNoNext ==
  /\ opResult.response.invoked # <<>>
  /\ opResult.response.kind # "popup"
  /\ opResult.next \in {NoParam, ""}

\* C16: after a successful operation without a redirect target the response
\* is rendered with success = true; when the stats of the piggyback path
\* cannot be fetched it carries result_error and no result, and when they
\* can it carries the massaged stats of that path and no result_error; a
\* view without piggyback carries neither.
C16_PiggybackFailureFlagged ==
  LET r == opResult.response IN
  OpSucceededNoNext =>
    /\ r.kind = "render"
    /\ r.success
    /\ opResult.view \in {"chmod", "chown"} /\ opResult.piggyFails =>
         r.result_error /\ r.result = <<>>
    /\ opResult.view \in {"chmod", "chown"} /\ ~opResult.piggyFails =>
         /\ ~r.result_error
         /\ Len(r.result) = 1
         /\ r.result[1].path = NamedPath(opResult.form[1])
         /\ r.result[1].stats = fsFiles[NamedPath(opResult.form[1])]
    /\ opResult.view \in {"remove", "move"} =>
         ~r.result_error /\ r.result = <<>>

\* A chmod that succeeded and whose stats could not be fetched afterwards.
C16_Witness ==
  /\ opResult.view = "chmod"
  /\ OpSucceededNoNext
  /\ opResult.piggyFails
  /\ opResult.response.success
  /\ opResult.response.result_error
  /\ S_IMODE(fsFiles[NamedPath(opResult.form[1])].mode) = 420


\* ---- Overwrite save: the steps after the staging write --------------------

\* The write and the close of the staging file both succeeded.
StagingWritten(p) ==
  LET dest == path_dest(req[p].path) IN
  /\ req[p].overwrite
  /\ CallsOf(p, "write", dest) \ FailedCallsOf(p, "write", dest) # {}
  /\ CallsOf(p, "close", dest) \ FailedCallsOf(p, "close", dest) # {}

\* C17 as stated: in an overwrite save whose staging write succeeded, no
\* failure of reading the original's stats, of the chmod or of the chown
\* aborts the save: it goes on to remove the original and, that done, to
\* rename the staging file.
C17_BestEffortStepsNeverAbort ==
  \A p \in savers :
    (pc[p] = "done" /\ StagingWritten(p)) =>
      LET path == req[p].path IN
      /\ CallsOf(p, "remove", path) # {}
      /\ CallsOf(p, "remove", path) \ FailedCallsOf(p, "remove", path) # {} =>
           CallsOf(p, "rename", path_dest(path)) # {}


\* ---- File handles -----------------------------------------------------------

\* Every handle a sequence of calls opened is closed further on.
AllClosed(cs) ==
  \A i \in DOMAIN cs :
    (cs[i].op = "open" /\ cs[i].ok) =>
      \E j \in DOMAIN cs : j > i /\ cs[j].op = "close" /\ cs[j].h = cs[i].h

\* C18 as stated: every handle opened by a read_contents call (its probes
\* and its reader included) or by a save is closed by the time the call
\* returns or raises.
C18_EveryHandleClosed ==
  /\ readResult.result.ret # "none" => AllClosed(readResult.result.calls)
  /\ \A p \in savers : pc[p] = "done" => AllClosed(calls[p])


\* ---- Directory listing: what the request leaves of the client's data -----

\* C19 as stated: after a listing request the collection listdir_stats
\* returned holds the same records in the same order as when it was
\* returned, and the record stats returned for the parent has the field
\* values it was returned with.
C19_ListingMutatesNothing ==
  listResult.ret = "render" =>
    /\ listResult.client_list = listResult.fetched
    /\ ~AtRoot => listResult.parent_stat = ParentStat(listResult.path)


\* ---- Overwrite save: the order of the steps --------------------------------

\* A call of saver p with the given operation and path succeeded before
\* index i.
DoneBefore(p, op, path, i) ==
  \E j \in CallsOf(p, op, path) \ FailedCallsOf(p, op, path) : j < i

\* C20: in an overwrite save the original is removed only after the staging
\* file was written and closed and the stats, chmod and chown steps were
\* taken, in that order, and the staging file is renamed only after the
\* original was removed; when the remove succeeded and the rename failed,
\* the save ends with the rename's error, no file at the path, and the new
\* content at <path>._hue_new.
C20_OverwriteStepOrder ==
  \A p \in savers :
    req[p].overwrite =>
      LET path == req[p].path
          dest == path_dest(path)
      IN  /\ \A i \in CallsOf(p, "remove", path) :
               \E w \in CallsOf(p, "write", dest), c \in CallsOf(p, "close", dest),
                  s \in CallsOf(p, "stats", path), m \in CallsOf(p, "chmod", dest),
                  o \in CallsOf(p, "chown", dest) :
                 /\ calls[p][w].ok /\ calls[p][c].ok /\ calls[p][s].ok
                 /\ w < c /\ c < s /\ s < m /\ m < o /\ o < i
          /\ \A i \in CallsOf(p, "rename", dest) : DoneBefore(p, "remove", path, i)
          /\ (/\ pc[p] = "done"
              /\ CallsOf(p, "remove", path) \ FailedCallsOf(p, "remove", path) # {}
              /\ FailedCallsOf(p, "rename", dest) # {}) =>
               /\ raised[p] = "rename"
               /\ ~fsFiles[path].exists
               /\ fsFiles[dest].exists
               /\ fsFiles[dest].data = Encode(req[p].data, req[p].encoding)

\* A save of e-acute in UTF-8 over /f.txt whose chmod failed, whose remove
\* succeeded and whose rename failed.
C20_Witness ==
  /\ pc[1] = "done"
  /\ req[1].path = PathF /\ req[1].overwrite
  /\ FailedCallsOf(1, "chmod", path_dest(PathF)) # {}
  /\ FailedCallsOf(1, "rename", path_dest(PathF)) # {}
  /\ raised[1] = "rename"
  /\ ~fsFiles[PathF].exists
  /\ fsFiles[path_dest(PathF)].data = <<195, 169>>


\* ---- Avro reads -------------------------------------------------------------

\* The records of a container after its header, in file order.
RECURSIVE RecordsOf(_)
RecordsOf(rest) ==
  IF rest = <<>> \/ Len(rest) < 1 + rest[1] THEN <<>>
  ELSE <<SubSeq(rest, 2, 1 + rest[1])>> \o RecordsOf(Drop(rest, 1 + rest[1]))

\* The bytes consumed once the first k records are read.
RECURSIVE ConsumedBy(_, _)
ConsumedBy(records, k) ==
  IF k = 0 THEN 0 ELSE ConsumedBy(records, k - 1) + 1 + Len(records[k])

\* The first k records, each followed by a newline.
RECURSIVE Lines(_, _)
Lines(records, k) ==
  IF k = 0 THEN <<>> ELSE Lines(records, k - 1) \o records[k] \o <<10>>

\* The read served was an Avro read, no call failing, of a file that holds
\* a whole container from the offset on.
AvroReadServed ==
  LET sought == Drop(fsFiles[readResult.path].data, readResult.result.offset) IN
  /\ readResult.result.codec = "avro"
  /\ readResult.fault = "none"
  /\ fsFiles[readResult.path].exists
  /\ Take(sought, 3) = <<79, 98, 106>>
  /\ AvroRecordsOk(Drop(sought, 3))

\* C21: an Avro read of a container that yields at least one record from the
\* offset returns the first k records in file order, each followed by a
\* newline, where k >= 1 whatever the length, and a later record is among
\* them exactly when the bytes consumed up to and including it do not exceed
\* the length.
C21_AvroAtLeastOneRecord ==
  LET r       == readResult.result
      records == RecordsOf(Drop(Drop(fsFiles[readResult.path].data, r.offset), 3))
      kept    == {k \in 1..Len(records) :
                    k = 1 \/ ConsumedBy(records, k) <= readResult.length}
  IN  (AvroReadServed /\ Len(records) >= 1) =>
        /\ r.ret = "ok"
        /\ 1 \in kept
        /\ r.contents = Lines(records, Cardinality(kept))

\* The container that starts at offset 1, read with length 3: the first
\* record and the empty second one are returned, the third is left out.
C21_Witness ==
  /\ AvroReadServed
  /\ fsFiles[PathH] = FileHLate
  /\ readResult.path = PathH
  /\ readResult.offset = 1
  /\ readResult.length = 3
  /\ readResult.result.contents = <<72, 10, 10>>

\* ---- C22 --------------------------------------------------------------------

\* The calls of the upload request served, a valid POST having been submitted.
UploadCalls == uploadResult.response.calls
ValidUpload == uploadResult.method = "POST" /\ uploadResult.valid

\* The client's active user after the first k calls of the request.
RECURSIVE ActiveAfter(_, _, _)
ActiveAfter(cs, k, entered) ==
  IF k = 0 THEN entered
  ELSE IF cs[k].op = "setuser" THEN cs[k].arg
  ELSE ActiveAfter(cs, k - 1, entered)

\* C22: in a POST upload with a valid form the client's active user is
\* switched to the filesystem superuser only for the chmod and the chown of
\* the temporary file: those calls, and no other, are made between the
\* switch and the switch back; the requesting user is active again on every
\* way out of that section, whether chmod and chown went through or one of
\* them failed; the rename of the temporary file and the stat that follows
\* run as the requesting user.
C22_SuperuserOnlyForChown ==
  ValidUpload =>
    LET cs   == UploadCalls
        user == uploadResult.username
        sets == {k \in 1..Len(cs) : cs[k].op = "setuser"}
    IN  /\ fsUser = user
        /\ uploadResult.response.active = user
        /\ Cardinality(sets) = 2
        /\ \A k \in 1..Len(cs) :
             /\ ActiveAfter(cs, k, user) \in {user, FsSuperuser}
             /\ cs[k].op \in {"chmod", "chown"} =>
                  /\ cs[k].as = FsSuperuser
                  /\ cs[k].arg = TmpPath
                  /\ ActiveAfter(cs, k, user) = FsSuperuser
             /\ cs[k].op \in {"rename", "stats"} =>
                  /\ cs[k].as = user
                  /\ ActiveAfter(cs, k, user) = user
             /\ (cs[k].op \notin {"setuser", "chmod", "chown"}) =>
                  ActiveAfter(cs, k, user) = user
        /\ \E a, b \in sets :
             /\ a < b
             /\ cs[a].arg = FsSuperuser
             /\ cs[b].arg = user
             /\ \A k \in (a + 1)..(b - 1) : cs[k].op \in {"chmod", "chown"}

\* An ordinary user's upload whose chown failed: the superuser was made
\* active, the chmod ran, the requesting user is active again and nothing was
\* renamed.
C22_Witness ==
  /\ ValidUpload
  /\ uploadResult.username = "bob"
  /\ uploadResult.failing = "chown"
  /\ uploadResult.response.ret = "popup"
  /\ uploadResult.response.why = "chown_failed"
  /\ \E k \in 1..Len(UploadCalls) :
       /\ UploadCalls[k].op = "chmod"
       /\ UploadCalls[k].as = FsSuperuser
       /\ UploadCalls[k].ok
  /\ \A k \in 1..Len(UploadCalls) : UploadCalls[k].op # "rename"
  /\ fsUser = "bob"

====
